---- MODULE Spec2Model ----
(***************************************************************************)
(* Market-data aggregation of myfi-app-backend:                            *)
(*   app/services/stock_api_service.py  (StockAPIService)                  *)
(*                                                                         *)
(* The service runs on one asyncio event loop.  A coroutine keeps the loop *)
(* until it awaits something that is not ready; the model therefore works  *)
(* at statement granularity, and a coroutine standing between two suspend  *)
(* points is the only one that may take the next step (CanRun).            *)
(*                                                                         *)
(* Time is a discrete clock `now` (datetime.now()), advanced by Tick.      *)
(* The two limiter windows and ceilings, the semaphore capacity and the    *)
(* chunk size are scaled down; each scaled value names the source line it  *)
(* stands for.                                                             *)
(***************************************************************************)
EXTENDS Integers, Sequences, FiniteSets, TLC

\* ------------------------------------------------------------------ bounds
\* coroutine slots for requests made directly by a route (GET /quote, /search)
NTasks == 2
\* last clock value the model explores (the Finnhub window elapses once)
MaxTime == 1
\* FINNHUB_MAX_CALLS_PER_MINUTE (stock_api_service.py:46, default 60), scaled
FINNHUB_MAX_PER_MINUTE == 1
\* ALPHA_VANTAGE_MAX_CALLS_PER_DAY (stock_api_service.py:47, default 25), scaled
ALPHA_VANTAGE_MAX_PER_DAY == 1
\* timedelta(minutes=1) (stock_api_service.py:388), in clock ticks, scaled
FinnhubWindow == 1
\* timedelta(days=1) (stock_api_service.py:403), in clock ticks, scaled
AlphaVantageWindow == 2
\* asyncio.Semaphore(10) (stock_api_service.py:53), scaled
SemaphoreCapacity == 1
\* batch_size = 20 (stock_api_service.py:346), scaled
batch_size == 1
\* get_multiple_quotes calls that may be made
NBatches == 2
\* symbols held by the get_multiple_quotes calls in progress at one time
MaxSymbols == 2

\* last clock value explored where the Alpha Vantage window has to elapse
LimiterHorizon == 2

\* rows a user may hold when the summary and the insights are computed
MaxPositions == 5
\* shares explored next to the documented scenario (10 shares)
MaxShares == 1
\* prices explored next to the documented scenario (100 and 110)
MaxPrice == 1
MaxClients == 3
\* rows in the table a position is sold from
MaxSellRows == 2
\* transactions of the user whose pages are read
MaxTransactions == 3
\* page sizes (limit) explored
MaxPageSize == 2
\* transactions created in one run of the ledger
MaxLedgerRows == 2
\* settings.RATE_LIMIT_REQUESTS (100 in config.py) and settings.RATE_LIMIT_WINDOW
\* (60 s), scaled down; one unit of time stands for the window
RATE_LIMIT_REQUESTS == 1
RATE_LIMIT_WINDOW == 1
\* requests whose check_rate_limit call the model follows
MaxRequests == 3

\* slots 1..NTasks serve direct requests, the others the fetches of a batch
DirectTasks == 1..NTasks
ChildTasks == (NTasks + 1)..(NTasks + MaxSymbols)
Tasks == DirectTasks \cup ChildTasks
Batches == 1..NBatches

\* raw ticker / keyword strings a caller may pass
Symbols == {"aapl", "ZZZZ"}
Keywords == {"", "aapl"}

\* the tickers of a portfolio, in position order (enrich_investments builds
\* the list from the positions, so a ticker held twice appears twice)
Portfolio == <<"aapl", "ZZZZ", "msft", "tsla", "nvda", "amd">>
BatchInputs ==
    {SubSeq(Portfolio, 1, n) : n \in 0..MaxSymbols} \cup {<<"aapl", "aapl">>}

\* values self.finnhub_key can hold after __init__
FinnhubKeys == {"", "your_finnhub_api_key_here", "fh_live_key"}

VARIABLES
    now,                  \* datetime.now()
    finnhub_key,          \* self.finnhub_key
    finnhub_calls,        \* self.finnhub_calls
    alpha_vantage_calls,  \* self.alpha_vantage_calls
    granted,              \* per call list: the coroutine whose permission check
                          \* returned true with no check or record on that list
                          \* since, else 0 (history)
    _semaphore,           \* self._semaphore: permits left
    pc,                   \* position of each request coroutine
    kind,                 \* "quote" (get_stock_quote) or "search" (search_stocks)
    arg,                  \* the symbol / keywords argument
    owner,                \* the batch a fetch belongs to, 0 for a direct request
    pos,                  \* index of the fetch's symbol in its batch's list
    result,               \* value returned (or exception raised) by the coroutine
    log,                  \* what the coroutine did, in order (history)
    bpc,                  \* position of each get_multiple_quotes call
    symbols,              \* its argument
    offset,               \* its loop variable i
    start_time,           \* its start_time
    quotes,               \* its quotes dict
    fetched,              \* what each finished fetch returned, by index (history)
    bresult               \* "returned", or the exception it raised

VARIABLES
    balance,              \* accounts.balance, by account
    transactions,         \* rows of the transactions table, in insertion order
    next_id,              \* number of transaction rows inserted so far
    pages                 \* what the last get_all calls for the first and the
                          \* second page returned

VARIABLES
    rate_limit_storage,   \* by client: the entry dict stored under it (the number
                          \* of the call that created it), 0 when the key is absent
    entries,              \* the entry dicts {"requests", "blocked_until"}, by the
                          \* call that created them
    checks                \* the check_rate_limit calls: position, locals, outcome

VARIABLES
    _client,              \* self._client: the instance held, 0 for None
    is_closed,            \* self._client.is_closed (FALSE while there is none)
    created,              \* number of httpx.AsyncClient instances created so far
    last_close,           \* what the last close() call did (history)
    handed,               \* the instance the last request got from _get_client,
                          \* 0 if close() has been called since (history)
    brandfetch_client_id, \* self.brandfetch_client_id
    api_status,           \* what the last get_api_status call returned
    investments,          \* rows of the investments table of one user, newest first
    market,               \* what get_multiple_quotes returns for the rows' symbols
    response              \* what the last route call of the portfolio answered

limiterVars == <<finnhub_calls, alpha_vantage_calls, granted>>
taskVars == <<pc, kind, arg, owner, pos, result, log>>
batchVars == <<bpc, symbols, offset, start_time, quotes, fetched, bresult>>
portfolioVars == <<investments, market, response>>
clientVars == <<_client, is_closed, created, last_close, handed>>
\* configuration and the state of the other routes
ledgerVars == <<balance, transactions, next_id, pages>>
\* state of the routes outside the investments module
rateVars == <<rate_limit_storage, entries, checks>>
restVars == <<ledgerVars, rateVars>>
configVars == <<finnhub_key, brandfetch_client_id, api_status, portfolioVars, restVars>>
\* state the steps of the aggregator that send no request do not write
outsideVars == <<configVars, clientVars>>
\* state of the aggregator that the other routes do not write
aggregatorVars == <<now, limiterVars, _semaphore, taskVars, batchVars>>
vars == <<now, outsideVars, limiterVars, _semaphore, taskVars, batchVars>>

\* ------------------------------------------------------------ pure helpers

\* symbol.upper().strip() / keywords.upper() on the strings of the model
Upper(s) ==
    CASE s = "aapl" -> "AAPL"
      [] s = "ZZZZ" -> "ZZZZ"
      [] OTHER      -> s

\* Optional[StockQuote] / List[StockSearchResult] / a raised exception
None == [tag |-> "None", src |-> "-", symbol |-> "-"]
StockQuote(src, s) == [tag |-> "StockQuote", src |-> src, symbol |-> s]
SearchResults(src, s) == [tag |-> "results", src |-> src, symbol |-> s]
EmptyList == [tag |-> "[]", src |-> "-", symbol |-> "-"]
NotFoundResult(kw) == [tag |-> "results", src |-> "not_found", symbol |-> Upper(kw)]
Raised(exc) == [tag |-> "raised", src |-> exc, symbol |-> "-"]
Pending == [tag |-> "pending", src |-> "-", symbol |-> "-"]

\* what a provider round trip can produce
\*   data      : 2xx with a usable payload
\*   no_data   : 2xx, well formed, without the payload key / with an empty list
\*   throttled : 2xx carrying the provider's "Note" / "Error Message" marker
\*   the rest  : exceptions raised by client.get / raise_for_status / json()
ExceptionKinds == {"timeout", "connect_error", "http_error", "malformed"}
EmptyKinds == {"no_data", "throttled"}
ResponseKinds == {"data"} \cup EmptyKinds \cup ExceptionKinds

\* how the log (history) names a response: by what the caller sees of it
Seen(resp) == IF resp \in ExceptionKinds THEN "exception" ELSE resp

\* the two providers with a call list
Providers == {"fh", "av"}

\* self.finnhub_key and self.finnhub_key != 'your_finnhub_api_key_here'
FinnhubConfigured == finnhub_key # "" /\ finnhub_key # "your_finnhub_api_key_here"

\* variant: the list is compared without the stale timestamps being dropped
Prune_KeepAll(calls, t, window) == calls

\* [call for call in calls if call > now - window]
Prune(calls, t, window) ==
    LET Keep(c) == c > t - window IN SelectSeq(calls, Keep)

\* variant: the comparison lets one call too many through (<= for <)
_can_call_finnhub_OffByOne(calls, t) ==
    Len(Prune(calls, t, FinnhubWindow)) <= FINNHUB_MAX_PER_MINUTE

\* len(self.finnhub_calls) < self.FINNHUB_MAX_PER_MINUTE, after the pruning
_can_call_finnhub(calls, t) ==
    Len(Prune(calls, t, FinnhubWindow)) < FINNHUB_MAX_PER_MINUTE

\* len(self.alpha_vantage_calls) < self.ALPHA_VANTAGE_MAX_PER_DAY, after the pruning
_can_call_alpha_vantage(calls, t) ==
    Len(Prune(calls, t, AlphaVantageWindow)) < ALPHA_VANTAGE_MAX_PER_DAY

\* ------------------------------------------------------- event-loop control

\* variant: the coroutine is also suspended between the permission check and
\* the recording of the call (an await that yields ahead of _track_finnhub_call)
YieldPoints_TrackAfterAwait ==
    {"idle", "ready", "sem_wait", "fh_wait", "av_wait", "logo_wait", "done", "fh_permitted"}

\* positions at which a coroutine is suspended (or not running at all)
YieldPoints == {"idle", "ready", "sem_wait", "fh_wait", "av_wait", "logo_wait", "done"}

AtYield(t) == pc[t] \in YieldPoints

\* coroutines created by asyncio.gather and not yet run: the event loop runs
\* its ready queue in FIFO order before it polls for I/O again, so they take
\* their first step, in creation order, before anything else happens
ReadyQueue == {u \in Tasks : pc[u] = "ready"}

\* a call that has just ended: its caller (enrich_investments, or the route
\* that awaited a direct request) goes on in the same step of the event loop
CallerRunning ==
    \/ \E b \in Batches : bpc[b] = "done"
    \/ \E t \in DirectTasks : pc[t] = "done"

\* t may take a step: it holds the event loop, or nobody does and t is the
\* head of the ready queue if there is one
CanRun(t) ==
    /\ ~CallerRunning
    /\ \A u \in Tasks \ {t} : AtYield(u)
    /\ AtYield(t) /\ ReadyQueue # {} =>
          t \in ReadyQueue /\ \A u \in ReadyQueue : pos[t] <= pos[u]

\* a new coroutine may be entered, or a suspended caller resumed:
\* nobody holds the event loop
LoopFree == ~CallerRunning /\ ReadyQueue = {} /\ \A u \in Tasks : AtYield(u)

\* the history is kept for the requests made directly by a route
Logged(t, l, e) == IF owner[t] = 0 THEN Append(l, e) ELSE l

\* request slots are handed out in order (the slots are interchangeable)
FreeSlot(t) ==
    /\ t \in DirectTasks
    /\ pc[t] = "idle"
    /\ \A u \in DirectTasks : u < t => pc[u] # "idle"

\* ------------------------------------------------------------------- Init

\* the accounts: 1 and 2 belong to the user of the requests, 3 to another user
Accounts == 1..3
Users == {"ana", "bob"}
Owner(a) == IF a = 3 THEN "bob" ELSE "ana"

\* accounts.balance when the account was opened
initial_balance == [a \in Accounts |-> 2]

\* no get_all call has been made for the page
NoPage == [skip |-> -1, limit |-> 0, ids |-> <<>>]

\* nothing booked, nothing read
LedgerIdle ==
    /\ balance = initial_balance
    /\ transactions = <<>>
    /\ next_id = 0
    /\ pages = [first |-> NoPage, second |-> NoPage]

\* the client addresses of the requests
ClientIps == {"10.0.0.1", "10.0.0.2"}
Requests == 1..MaxRequests

\* {"requests": [], "blocked_until": None}; -1 stands for None
NewEntry == [requests |-> <<>>, blocked_until |-> -1]

\* a call of check_rate_limit that has not started
NoCheck == [pc |-> "new", client_id |-> "-", current_time |-> 0, client_data |-> 0,
            outcome |-> "-"]

\* rate_limit_storage = {} and no request received
RateIdle ==
    /\ rate_limit_storage = [c \in ClientIps |-> 0]
    /\ entries = [r \in Requests |-> NewEntry]
    /\ checks = [r \in Requests |-> NoCheck]

\* the routes outside the investments module have not been called
RestIdle == LedgerIdle /\ RateIdle

\* get_api_status has not been called
NoStatus ==
    [p \in {"finnhub", "alpha_vantage"} |->
        [available |-> FALSE, calls |-> -1, limit |-> 0, remaining |-> 0]]

\* no route of the portfolio has been called
NoResponse == [status |-> 0, error |-> "-"]

Init ==
    /\ brandfetch_client_id = "bf_client"
    /\ api_status = NoStatus
    /\ _client = 0
    /\ is_closed = FALSE
    /\ created = 0
    /\ last_close = "-"
    /\ handed = 0
    /\ RestIdle
    /\ investments = <<>>
    /\ market = <<>>
    /\ response = NoResponse
    /\ now = 0
    /\ finnhub_key \in FinnhubKeys
    /\ finnhub_calls = <<>>
    /\ alpha_vantage_calls = <<>>
    /\ granted = [p \in Providers |-> 0]
    /\ _semaphore = SemaphoreCapacity
    /\ pc = [t \in Tasks |-> "idle"]
    /\ kind = [t \in Tasks |-> "quote"]
    /\ arg = [t \in Tasks |-> ""]
    /\ owner = [t \in Tasks |-> 0]
    /\ pos = [t \in Tasks |-> 0]
    /\ result = [t \in Tasks |-> Pending]
    /\ log = [t \in Tasks |-> <<>>]
    /\ bpc = [b \in Batches |-> "idle"]
    /\ symbols = [b \in Batches |-> <<>>]
    /\ offset = [b \in Batches |-> 0]
    /\ start_time = [b \in Batches |-> 0]
    /\ quotes = [b \in Batches |-> <<>>]
    /\ fetched = [b \in Batches |-> <<>>]
    /\ bresult = [b \in Batches |-> "pending"]

\* ------------------------------------------------- single request: actions

\* the wall clock advances
Tick ==
    /\ now < MaxTime
    /\ now' = now + 1
    /\ UNCHANGED <<outsideVars, limiterVars, _semaphore, taskVars, batchVars>>

\* routes/investments.py: GET /quote awaits stock_api_service.get_stock_quote(q);
\* the coroutine runs up to the first limiter check
StartQuote(t, s) ==
    /\ FreeSlot(t)
    /\ LoopFree
    /\ pc' = [pc EXCEPT ![t] = "fh_gate"]
    /\ kind' = [kind EXCEPT ![t] = "quote"]
    /\ arg' = [arg EXCEPT ![t] = s]
    /\ UNCHANGED <<now, outsideVars, limiterVars, _semaphore,
                   owner, pos, result, log, batchVars>>

\* routes/investments.py: GET /search awaits stock_api_service.search_stocks(q);
\* blank keywords return [] at once
StartSearch(t, kw) ==
    /\ FreeSlot(t)
    /\ LoopFree
    /\ kind' = [kind EXCEPT ![t] = "search"]
    /\ arg' = [arg EXCEPT ![t] = kw]
    /\ IF kw = ""
       THEN /\ pc' = [pc EXCEPT ![t] = "done"]
            /\ result' = [result EXCEPT ![t] = EmptyList]
       ELSE /\ pc' = [pc EXCEPT ![t] = "fh_gate"]
            /\ UNCHANGED result
    /\ UNCHANGED <<now, outsideVars, limiterVars, _semaphore,
                   owner, pos, log, batchVars>>

\* variant: a fabricated quote stands in once both providers are out
Fallback_Mock(t) ==
    IF kind[t] = "quote" THEN StockQuote("mock", Upper(arg[t]))
                         ELSE NotFoundResult(arg[t])

\* the value returned once both providers are out:
\* None for a quote, the generic "Not found in API" entry for a search
Fallback(t) == IF kind[t] = "quote" THEN None ELSE NotFoundResult(arg[t])

\* _get_quote_with_semaphore: `except Exception` turns a raised fetch into None
GuardedResult(r) == IF r.tag = "raised" THEN None ELSE r

\* the coroutine of slot t ends with value r; a fetch of a batch leaves
\* `async with self._semaphore` on the way out
Finish(t, r) ==
    /\ pc' = [pc EXCEPT ![t] = "done"]
    /\ IF owner[t] = 0
       THEN /\ result' = [result EXCEPT ![t] = r]
            /\ UNCHANGED _semaphore
       ELSE /\ result' = [result EXCEPT ![t] = GuardedResult(r)]
            /\ _semaphore' = _semaphore + 1

\* variant: the call is recorded ahead of the permission check, so a denied
\* request leaves a timestamp too
CheckFinnhub_TrackFirst(t) ==
    /\ pc[t] = "fh_gate"
    /\ CanRun(t)
    /\ IF FinnhubConfigured
       THEN /\ finnhub_calls' = Append(Prune(finnhub_calls, now, FinnhubWindow), now)
            /\ granted' = [granted EXCEPT !["fh"] = 0]
            /\ IF _can_call_finnhub(finnhub_calls, now)
               THEN /\ pc' = [pc EXCEPT ![t] = "fh_wait"]
                    /\ log' = [log EXCEPT ![t] =
                                  Logged(t, Logged(t, @, <<"fh", "granted">>), <<"fh", "sent">>)]
               ELSE /\ pc' = [pc EXCEPT ![t] = "av_gate"]
                    /\ log' = [log EXCEPT ![t] = Logged(t, @, <<"fh", "denied">>)]
       ELSE /\ pc' = [pc EXCEPT ![t] = "av_gate"]
            /\ UNCHANGED <<finnhub_calls, granted, log>>
    /\ UNCHANGED <<now, outsideVars, alpha_vantage_calls, _semaphore,
                   kind, arg, owner, pos, result, batchVars>>

\* `if self.finnhub_key ...: try: if self._can_call_finnhub():`
CheckFinnhub(t) ==
    /\ pc[t] = "fh_gate"
    /\ CanRun(t)
    /\ IF FinnhubConfigured
       THEN /\ finnhub_calls' = Prune(finnhub_calls, now, FinnhubWindow)
            /\ granted' = [granted EXCEPT !["fh"] =
                               IF _can_call_finnhub(finnhub_calls, now) THEN t ELSE 0]
            /\ IF _can_call_finnhub(finnhub_calls, now)
               THEN /\ pc' = [pc EXCEPT ![t] = "fh_permitted"]
                    /\ log' = [log EXCEPT ![t] = Logged(t, @, <<"fh", "granted">>)]
               ELSE /\ pc' = [pc EXCEPT ![t] = "av_gate"]
                    /\ log' = [log EXCEPT ![t] = Logged(t, @, <<"fh", "denied">>)]
       ELSE /\ pc' = [pc EXCEPT ![t] = "av_gate"]
            /\ UNCHANGED <<finnhub_calls, granted, log>>
    /\ UNCHANGED <<now, outsideVars, alpha_vantage_calls, _semaphore,
                   kind, arg, owner, pos, result, batchVars>>

\* await self._get_client(): the client held if there is one and it is open,
\* else a new instance, which the service holds from then on. The coroutine
\* has no await of its own, so the caller is not suspended
_get_client ==
    IF _client = 0 \/ is_closed
    THEN /\ created < MaxClients
         /\ created' = created + 1
         /\ _client' = created + 1
         /\ is_closed' = FALSE
         /\ handed' = created + 1
    ELSE /\ handed' = _client
         /\ UNCHANGED <<_client, is_closed, created>>

\* _get_quote_finnhub / _search_finnhub up to `await client.get(...)`
CallFinnhub(t) ==
    /\ pc[t] = "fh_permitted"
    /\ CanRun(t)
    /\ _get_client
    /\ finnhub_calls' = Append(finnhub_calls, now)
    /\ granted' = [granted EXCEPT !["fh"] = 0]
    /\ pc' = [pc EXCEPT ![t] = "fh_wait"]
    /\ log' = [log EXCEPT ![t] = Logged(t, @, <<"fh", "sent">>)]
    /\ UNCHANGED <<now, configVars, last_close, alpha_vantage_calls, _semaphore,
                   kind, arg, owner, pos, result, batchVars>>

\* variant: the handler names httpx.RequestError, which a 4xx/5xx status
\* (HTTPStatusError) and a payload error are not
CaughtByExcept_TransportOnly(exc) == exc \in {"timeout", "connect_error"}

\* variant: the handler names httpx.HTTPError, which a payload error
\* (ValueError / KeyError while parsing) is not
CaughtByExcept_HttpOnly(exc) == exc \in {"timeout", "connect_error", "http_error"}

\* `except Exception as e:` around each provider attempt: which raised
\* exceptions the handler absorbs (every one of them derives from Exception)
CaughtByExcept(exc) == exc \in ExceptionKinds

\* what _get_quote_finnhub / _search_finnhub return for a 2xx payload:
\* a StockQuote when 'c' is present (a non-empty list for a search), else None / []
FinnhubParsed(t, resp) ==
    IF resp = "data"
    THEN IF kind[t] = "quote" THEN StockQuote("finnhub", Upper(arg[t]))
                              ELSE SearchResults("finnhub", arg[t])
    ELSE IF kind[t] = "quote" THEN None ELSE EmptyList

\* what _get_quote_alpha_vantage / _search_alpha_vantage return for a 2xx payload
AlphaVantageParsed(t, resp) ==
    IF resp = "data"
    THEN IF kind[t] = "quote" THEN StockQuote("alpha_vantage", Upper(arg[t]))
                              ELSE SearchResults("alpha_vantage", arg[t])
    ELSE IF kind[t] = "quote" THEN None ELSE EmptyList

\* variant: the test is `is not None`, which an empty list passes
Truthy_NotNone(v) == v.tag # "None"

\* `if quote:` / `if results:`
Truthy(v) == v.tag \in {"StockQuote", "results"}

\* the awaited Finnhub request completes; `if quote: return quote`,
\* otherwise control falls through to the Alpha Vantage block
FinnhubResponds(t, resp) ==
    /\ pc[t] = "fh_wait"
    /\ CanRun(t)
    /\ log' = [log EXCEPT ![t] = Logged(t, @, <<"fh", Seen(resp)>>)]
    /\ IF resp \in ExceptionKinds
       THEN IF CaughtByExcept(resp)
            THEN /\ pc' = [pc EXCEPT ![t] = "av_gate"]
                 /\ UNCHANGED <<result, _semaphore>>
            ELSE Finish(t, Raised(resp))
       ELSE IF Truthy(FinnhubParsed(t, resp))
            THEN Finish(t, FinnhubParsed(t, resp))
            ELSE /\ pc' = [pc EXCEPT ![t] = "av_gate"]
                 /\ UNCHANGED <<result, _semaphore>>
    /\ UNCHANGED <<now, outsideVars, limiterVars, kind, arg, owner, pos, batchVars>>

\* `try: if self._can_call_alpha_vantage():`; when denied the function
\* reaches its last statement and returns the fallback value
CheckAlphaVantage(t) ==
    /\ pc[t] = "av_gate"
    /\ CanRun(t)
    /\ alpha_vantage_calls' = Prune(alpha_vantage_calls, now, AlphaVantageWindow)
    /\ granted' = [granted EXCEPT !["av"] =
                       IF _can_call_alpha_vantage(alpha_vantage_calls, now) THEN t ELSE 0]
    /\ IF _can_call_alpha_vantage(alpha_vantage_calls, now)
       THEN /\ pc' = [pc EXCEPT ![t] = "av_permitted"]
            /\ log' = [log EXCEPT ![t] = Logged(t, @, <<"av", "granted">>)]
            /\ UNCHANGED <<result, _semaphore>>
       ELSE /\ log' = [log EXCEPT ![t] = Logged(t, @, <<"av", "denied">>)]
            /\ Finish(t, Fallback(t))
    /\ UNCHANGED <<now, outsideVars, finnhub_calls, kind, arg, owner, pos, batchVars>>

\* _get_quote_alpha_vantage / _search_alpha_vantage up to `await client.get(...)`
CallAlphaVantage(t) ==
    /\ pc[t] = "av_permitted"
    /\ CanRun(t)
    /\ _get_client
    /\ alpha_vantage_calls' = Append(alpha_vantage_calls, now)
    /\ granted' = [granted EXCEPT !["av"] = 0]
    /\ pc' = [pc EXCEPT ![t] = "av_wait"]
    /\ log' = [log EXCEPT ![t] = Logged(t, @, <<"av", "sent">>)]
    /\ UNCHANGED <<now, configVars, last_close, finnhub_calls, _semaphore,
                   kind, arg, owner, pos, result, batchVars>>

\* the awaited Alpha Vantage request completes; `if quote: return quote`,
\* otherwise the function returns the fallback value
AlphaVantageResponds(t, resp) ==
    /\ pc[t] = "av_wait"
    /\ CanRun(t)
    /\ log' = [log EXCEPT ![t] = Logged(t, @, <<"av", Seen(resp)>>)]
    /\ Finish(t, IF resp \in ExceptionKinds
                 THEN IF CaughtByExcept(resp) THEN Fallback(t) ELSE Raised(resp)
                 ELSE IF Truthy(AlphaVantageParsed(t, resp))
                      THEN AlphaVantageParsed(t, resp)
                      ELSE Fallback(t))
    /\ UNCHANGED <<now, outsideVars, limiterVars, kind, arg, owner, pos, batchVars>>

\* the route has received the value of a direct request and answers the
\* client (GET /quote turns None into a 503): the coroutine is gone
Return(t) ==
    /\ t \in DirectTasks
    /\ pc[t] = "done"
    /\ pc' = [pc EXCEPT ![t] = "idle"]
    /\ kind' = [kind EXCEPT ![t] = "quote"]
    /\ arg' = [arg EXCEPT ![t] = ""]
    /\ result' = [result EXCEPT ![t] = Pending]
    /\ log' = [log EXCEPT ![t] = <<>>]
    /\ UNCHANGED <<now, outsideVars, limiterVars, _semaphore, owner, pos, batchVars>>

\* ----------------------------------------------------- get_stock_logo: actions

\* values self.brandfetch_client_id can hold after __init__
BrandfetchIds == {"", "bf_client"}

\* the q parameter of GET /logo (min_length=1)
Tickers == {" ", "aapl", "ZZZZ"}

\* ticker.strip()
Strip(s) == IF s = " " THEN "" ELSE s

\* what the round trip to the logo CDN can produce: a status code, or an
\* exception raised by client.get
LogoStatuses == {"200", "404", "500"}
LogoExceptions == {"timeout", "connect_error", "ssl_error"}
LogoOutcomes == LogoStatuses \cup LogoExceptions

\* f"{self.brandfetch_base_url}/{ticker}?c={self.brandfetch_client_id}"
LogoUrl(ticker) ==
    [base |-> "https://cdn.brandfetch.io", ticker |-> ticker, c |-> brandfetch_client_id]

NoUrl == [base |-> "None", ticker |-> "-", c |-> "-"]

\* the dict get_stock_logo returns
LogoResult(ticker, available, url) ==
    [tag |-> "logo", src |-> "-", symbol |-> ticker, available |-> available, logo_url |-> url]

\* the except clauses of get_stock_logo, tried in order: TimeoutException is
\* answered by an HTTPException 504; for any other exception the second
\* clause evaluates httpx.SSLError, a name the httpx module does not have
LogoExcept(exc) ==
    IF exc = "timeout" THEN Raised("HTTPException_504") ELSE Raised("AttributeError")

\* routes/investments.py: GET /logo awaits stock_api_service.get_stock_logo(q);
\* the coroutine runs up to client.get
StartLogo(t, q) ==
    /\ FreeSlot(t)
    /\ LoopFree
    /\ kind' = [kind EXCEPT ![t] = "logo"]
    /\ arg' = [arg EXCEPT ![t] = q]
    /\ IF Strip(q) = ""
       THEN /\ pc' = [pc EXCEPT ![t] = "done"]
            /\ result' = [result EXCEPT ![t] = Raised("HTTPException_400")]
       ELSE IF brandfetch_client_id = ""
       THEN /\ pc' = [pc EXCEPT ![t] = "done"]
            /\ result' = [result EXCEPT ![t] = Raised("HTTPException_503")]
       ELSE /\ pc' = [pc EXCEPT ![t] = "logo_wait"]
            /\ UNCHANGED result
    /\ UNCHANGED <<now, outsideVars, limiterVars, _semaphore, owner, pos, log, batchVars>>

\* the response of the logo CDN (or the exception of the round trip) arrives
LogoResponds(t, outcome) ==
    /\ pc[t] = "logo_wait"
    /\ CanRun(t)
    /\ pc' = [pc EXCEPT ![t] = "done"]
    /\ log' = [log EXCEPT ![t] = Append(@, outcome)]
    /\ result' = [result EXCEPT ![t] =
          LET ticker == Upper(Strip(arg[t]))
          IN CASE outcome = "200" -> LogoResult(ticker, TRUE, LogoUrl(ticker))
               [] outcome \in LogoStatuses \ {"200"} -> LogoResult(ticker, FALSE, NoUrl)
               [] OTHER -> LogoExcept(outcome)]
    /\ UNCHANGED <<now, outsideVars, limiterVars, _semaphore, kind, arg, owner, pos, batchVars>>

\* the steps of one get_stock_quote / search_stocks coroutine
RequestStep ==
    \/ \E t \in Tasks : CheckFinnhub(t)
    \/ \E t \in Tasks : CallFinnhub(t)
    \/ \E t \in Tasks, resp \in ResponseKinds : FinnhubResponds(t, resp)
    \/ \E t \in Tasks : CheckAlphaVantage(t)
    \/ \E t \in Tasks : CallAlphaVantage(t)
    \/ \E t \in Tasks, resp \in ResponseKinds : AlphaVantageResponds(t, resp)

\* ------------------------------------------------ get_multiple_quotes: actions

Min(a, b) == IF a < b THEN a ELSE b

\* symbols of the calls in progress
RECURSIVE ActiveSymbols(_)
ActiveSymbols(B) ==
    IF B = {} THEN 0
    ELSE LET b == CHOOSE x \in B : TRUE
         IN (IF bpc[b] = "gather" THEN Len(symbols[b]) ELSE 0) + ActiveSymbols(B \ {b})

\* batch ids are handed out in order (the calls are interchangeable)
FreeBatch(b) == bpc[b] = "idle" /\ \A c \in Batches : c < b => bpc[c] # "idle"

\* the n lowest slots of S
Rank(t, S) == Cardinality({u \in S : u <= t})
Lowest(S, n) == {t \in S : Rank(t, S) <= n}

\* variant: the whole rest of the list is gathered at once
ChunkLen_Rest(syms, i) == Len(syms) - i

\* `batch = symbols[i:i+batch_size]`: the indices of the chunk that starts after i
ChunkLen(syms, i) == Min(batch_size, Len(syms) - i)

\* `tasks = [self._get_quote_with_semaphore(symbol) for symbol in batch]` handed
\* to asyncio.gather: one coroutine per symbol of the chunk, on the slots of
\* `free`; the other slots of `free` are left idle
Gather(b, syms, i, free) ==
    LET new == Lowest(free, ChunkLen(syms, i))
    IN /\ pc' = [t \in Tasks |-> IF t \in new THEN "ready"
                                 ELSE IF t \in free THEN "idle" ELSE pc[t]]
       /\ owner' = [t \in Tasks |-> IF t \in new THEN b
                                    ELSE IF t \in free THEN 0 ELSE owner[t]]
       /\ pos' = [t \in Tasks |-> IF t \in new THEN i + Rank(t, free)
                                  ELSE IF t \in free THEN 0 ELSE pos[t]]
       /\ arg' = [t \in Tasks |-> IF t \in new THEN syms[i + Rank(t, free)]
                                  ELSE IF t \in free THEN "" ELSE arg[t]]
       /\ kind' = [t \in Tasks |-> IF t \in free THEN "quote" ELSE kind[t]]
       /\ result' = [t \in Tasks |-> IF t \in free THEN Pending ELSE result[t]]
       /\ log' = [t \in Tasks |-> IF t \in free THEN <<>> ELSE log[t]]

IdleChildren == {t \in ChildTasks : pc[t] = "idle"}

\* get_multiple_quotes(symbols) from its entry to the first `await asyncio.gather`
\* (enrich_investments awaits it); an empty list returns {} at once
StartBatch(b, syms) ==
    /\ FreeBatch(b)
    /\ LoopFree
    /\ ActiveSymbols(Batches) + Len(syms) <= MaxSymbols
    /\ symbols' = [symbols EXCEPT ![b] = syms]
    /\ IF syms = <<>>
       THEN /\ bpc' = [bpc EXCEPT ![b] = "done"]
            /\ bresult' = [bresult EXCEPT ![b] = "returned"]
            /\ UNCHANGED <<start_time, taskVars>>
       ELSE /\ bpc' = [bpc EXCEPT ![b] = "gather"]
            /\ start_time' = [start_time EXCEPT ![b] = now]
            /\ Gather(b, syms, 0, IdleChildren)
            /\ UNCHANGED bresult
    /\ UNCHANGED <<now, outsideVars, limiterVars, _semaphore, offset, quotes, fetched>>

\* variant: the fetch runs without entering the semaphore
ChildBegin_NoGate(t) ==
    /\ pc[t] = "ready"
    /\ CanRun(t)
    /\ pc' = [pc EXCEPT ![t] = "fh_gate"]
    /\ UNCHANGED <<now, outsideVars, limiterVars, _semaphore,
                   kind, arg, owner, pos, result, log, batchVars>>

\* _get_quote_with_semaphore enters `async with self._semaphore`: it takes a
\* permit, or waits when none is left (or, with FIFO hand-over, when earlier
\* waiters are queued)
ChildBegin(t) ==
    /\ pc[t] = "ready"
    /\ CanRun(t)
    /\ \/ /\ _semaphore > 0
          /\ _semaphore' = _semaphore - 1
          /\ pc' = [pc EXCEPT ![t] = "fh_gate"]
       \/ /\ _semaphore = 0 \/ \E u \in Tasks : pc[u] = "sem_wait"
          /\ pc' = [pc EXCEPT ![t] = "sem_wait"]
          /\ UNCHANGED _semaphore
    /\ UNCHANGED <<now, outsideVars, limiterVars,
                   kind, arg, owner, pos, result, log, batchVars>>

\* a waiter of the semaphore is woken by a release and takes the permit
SemResume(t) ==
    /\ pc[t] = "sem_wait"
    /\ CanRun(t)
    /\ _semaphore > 0
    /\ _semaphore' = _semaphore - 1
    /\ pc' = [pc EXCEPT ![t] = "fh_gate"]
    /\ UNCHANGED <<now, outsideVars, limiterVars,
                   kind, arg, owner, pos, result, log, batchVars>>

\* `if isinstance(result, Exception): quotes[symbol] = None`
GatherResult(r) == IF r.tag = "raised" THEN None ELSE r

\* the fetch of batch b that works on index p of its list
ChildAt(b, p) == CHOOSE t \in ChildTasks : owner[t] = b /\ pos[t] = p

\* `for symbol, result in zip(batch, results): quotes[symbol] = ...`:
\* the dict after the n results of the chunk starting after i are stored in order
Store(q, syms, res, i, n) ==
    LET keys == {syms[i + k] : k \in 1..n}
        last(s) == CHOOSE k \in 1..n :
                      /\ syms[i + k] = s
                      /\ \A j \in 1..n : syms[i + j] = s => j <= k
    IN [s \in (DOMAIN q) \cup keys |->
           IF s \in keys THEN GatherResult(res[last(s)]) ELSE q[s]]

\* the closing log line divides by the elapsed seconds:
\* f"... ({success_count/elapsed:.1f} quotes/s)"
ClosingLog(elapsed) == IF elapsed = 0 THEN "ZeroDivisionError" ELSE "returned"

\* asyncio.gather returns: every fetch of the chunk has finished; the results
\* are stored, then the next chunk is gathered or the call ends
BatchCollect(b) ==
    LET mine == {t \in ChildTasks : owner[t] = b}
        i == offset[b]
        n == ChunkLen(symbols[b], i)
        res == [k \in 1..n |-> result[ChildAt(b, i + k)]]
    IN /\ bpc[b] = "gather"
       /\ LoopFree
       /\ \A t \in mine : pc[t] = "done"
       /\ quotes' = [quotes EXCEPT ![b] = Store(@, symbols[b], res, i, n)]
       /\ fetched' = [fetched EXCEPT ![b] = @ \o res]
       /\ offset' = [offset EXCEPT ![b] = i + batch_size]
       /\ IF i + batch_size < Len(symbols[b])
          THEN /\ Gather(b, symbols[b], i + batch_size, IdleChildren \cup mine)
               /\ UNCHANGED <<bpc, bresult>>
          ELSE /\ Gather(b, <<>>, 0, mine)
               /\ bpc' = [bpc EXCEPT ![b] = "done"]
               /\ bresult' = [bresult EXCEPT ![b] = ClosingLog(now - start_time[b])]
       /\ UNCHANGED <<now, outsideVars, limiterVars, _semaphore, symbols, start_time>>

\* enrich_investments has received the dict (or the exception): the call is over
BatchReturn(b) ==
    /\ bpc[b] = "done"
    /\ bpc' = [bpc EXCEPT ![b] = "idle"]
    /\ symbols' = [symbols EXCEPT ![b] = <<>>]
    /\ offset' = [offset EXCEPT ![b] = 0]
    /\ start_time' = [start_time EXCEPT ![b] = 0]
    /\ quotes' = [quotes EXCEPT ![b] = <<>>]
    /\ fetched' = [fetched EXCEPT ![b] = <<>>]
    /\ bresult' = [bresult EXCEPT ![b] = "pending"]
    /\ UNCHANGED <<now, outsideVars, limiterVars, _semaphore, taskVars>>

\* ------------------------------------------------------------ specification

\* requests made directly by the routes
Next ==
    \/ Tick
    \/ \E t \in Tasks, s \in Symbols : StartQuote(t, s)
    \/ \E t \in Tasks, kw \in Keywords : StartSearch(t, kw)
    \/ RequestStep
    \/ \E t \in Tasks : Return(t)

Spec == Init /\ [][Next]_vars

\* get_multiple_quotes calls (enrich_investments) and their fetches
NextBatch ==
    \/ Tick
    \/ \E b \in Batches, syms \in BatchInputs : StartBatch(b, syms)
    \/ \E t \in Tasks : ChildBegin(t)
    \/ \E t \in Tasks : SemResume(t)
    \/ RequestStep
    \/ \E b \in Batches : BatchCollect(b)
    \/ \E b \in Batches : BatchReturn(b)

SpecBatch == Init /\ [][NextBatch]_vars

\* the wall clock advances, far enough for the longer window to elapse
TickLimiter ==
    /\ now < LimiterHorizon
    /\ now' = now + 1
    /\ UNCHANGED <<outsideVars, limiterVars, _semaphore, taskVars, batchVars>>

\* quote requests over a span of time longer than both windows
NextLimiter ==
    \/ TickLimiter
    \/ \E t \in Tasks : StartQuote(t, "aapl")
    \/ RequestStep
    \/ \E t \in Tasks : Return(t)

SpecLimiter == Init /\ [][NextLimiter]_vars

\* -------------------------------------------------------------------- close

\* close(): `if self._client and not self._client.is_closed`, then aclose()
\* marks the instance closed at once and awaits the transport's shutdown;
\* suspended tells whether that await gives the event loop away. Otherwise
\* the call does nothing
close(suspended) ==
    /\ LoopFree
    /\ last_close # "aclose"
    /\ IF _client # 0 /\ ~is_closed
       THEN IF suspended
            THEN /\ is_closed' = TRUE
                 /\ last_close' = "aclose"
                 /\ UNCHANGED _client
            ELSE /\ _client' = 0
                 /\ is_closed' = FALSE
                 /\ last_close' = "closed"
       ELSE /\ last_close' = "noop"
            /\ UNCHANGED <<_client, is_closed>>
    /\ handed' = 0
    /\ UNCHANGED <<created, configVars, aggregatorVars>>

\* close() resumes after `await self._client.aclose()`: self._client = None
CloseResume ==
    /\ last_close = "aclose"
    /\ LoopFree
    /\ _client' = 0
    /\ is_closed' = FALSE
    /\ last_close' = "closed"
    /\ UNCHANGED <<created, handed, configVars, aggregatorVars>>

\* search and quote requests, and close() calls, over a span of time in which
\* the limiters let several requests through
NextClient ==
    \/ TickLimiter
    \/ \E t \in Tasks : StartQuote(t, "aapl")
    \/ \E t \in Tasks : StartSearch(t, "aapl")
    \/ RequestStep
    \/ \E t \in Tasks : Return(t)
    \/ \E suspended \in BOOLEAN : close(suspended)
    \/ CloseResume

SpecClient == Init /\ [][NextClient]_vars

\* ----------------------------------------------------------- get_api_status

Max(a, b) == IF a > b THEN a ELSE b

\* one provider's entry of the dict get_api_status returns
ProviderStatus(available, recent, limit) ==
    [available |-> available, calls |-> recent, limit |-> limit,
     remaining |-> Max(0, limit - recent)]

\* how far the clock can move between two datetime.now() calls of one
\* get_api_status call: not past a second boundary, or past one
ClockSteps == {0, 1}

\* routes/investments.py: GET /api-status returns get_api_status(), a plain
\* function: it runs while no coroutine does. It reads the clock once for the
\* two counts (line 427) and each _can_call_* reads it again (lines 387, 402)
get_api_status(d1, d2) ==
    LET t0 == now
        t1 == now + d1
        t2 == now + d1 + d2
        finnhub_recent == Len(Prune(finnhub_calls, t0, FinnhubWindow))
        alpha_vantage_recent == Len(Prune(alpha_vantage_calls, t0, AlphaVantageWindow))
    IN /\ LoopFree
       /\ t2 <= LimiterHorizon
       /\ now' = t2
       /\ finnhub_calls' = Prune(finnhub_calls, t1, FinnhubWindow)
       /\ alpha_vantage_calls' = Prune(alpha_vantage_calls, t2, AlphaVantageWindow)
       /\ granted' = [p \in Providers |-> 0]
       /\ api_status' =
             [finnhub |-> ProviderStatus(_can_call_finnhub(finnhub_calls, t1),
                                         finnhub_recent, FINNHUB_MAX_PER_MINUTE),
              alpha_vantage |-> ProviderStatus(_can_call_alpha_vantage(alpha_vantage_calls, t2),
                                               alpha_vantage_recent, ALPHA_VANTAGE_MAX_PER_DAY)]
       /\ UNCHANGED <<finnhub_key, brandfetch_client_id, portfolioVars, clientVars, restVars,
                      _semaphore, taskVars, batchVars>>

\* quote requests and status queries over a span longer than both windows
NextStatus ==
    \/ TickLimiter
    \/ \E t \in Tasks : StartQuote(t, "aapl")
    \/ RequestStep
    \/ \E t \in Tasks : Return(t)
    \/ \E d1, d2 \in ClockSteps : get_api_status(d1, d2)

SpecStatus == Init /\ [][NextStatus]_vars

\* GET /logo requests, with the logo service configured or not
InitLogo ==
    /\ brandfetch_client_id \in BrandfetchIds
    /\ api_status = NoStatus
    /\ _client = 0
    /\ is_closed = FALSE
    /\ created = 0
    /\ last_close = "-"
    /\ handed = 0
    /\ RestIdle
    /\ finnhub_key = "fh_live_key"
    /\ investments = <<>>
    /\ market = <<>>
    /\ response = NoResponse
    /\ now = 0
    /\ finnhub_calls = <<>>
    /\ alpha_vantage_calls = <<>>
    /\ granted = [p \in Providers |-> 0]
    /\ _semaphore = SemaphoreCapacity
    /\ pc = [t \in Tasks |-> "idle"]
    /\ kind = [t \in Tasks |-> "quote"]
    /\ arg = [t \in Tasks |-> ""]
    /\ owner = [t \in Tasks |-> 0]
    /\ pos = [t \in Tasks |-> 0]
    /\ result = [t \in Tasks |-> Pending]
    /\ log = [t \in Tasks |-> <<>>]
    /\ bpc = [b \in Batches |-> "idle"]
    /\ symbols = [b \in Batches |-> <<>>]
    /\ offset = [b \in Batches |-> 0]
    /\ start_time = [b \in Batches |-> 0]
    /\ quotes = [b \in Batches |-> <<>>]
    /\ fetched = [b \in Batches |-> <<>>]
    /\ bresult = [b \in Batches |-> "pending"]

NextLogo ==
    \/ Tick
    \/ \E t \in Tasks, q \in Tickers : StartLogo(t, q)
    \/ \E t \in Tasks, outcome \in LogoOutcomes : LogoResponds(t, outcome)
    \/ \E t \in Tasks : Return(t)

SpecLogo == InitLogo /\ [][NextLogo]_vars

\* the investments module at rest, with both providers configured
ServiceIdle ==
    /\ brandfetch_client_id = "bf_client"
    /\ api_status = NoStatus
    /\ _client = 0
    /\ is_closed = FALSE
    /\ created = 0
    /\ last_close = "-"
    /\ handed = 0
    /\ investments = <<>>
    /\ market = <<>>
    /\ response = NoResponse
    /\ now = 0
    /\ finnhub_key = "fh_live_key"
    /\ finnhub_calls = <<>>
    /\ alpha_vantage_calls = <<>>
    /\ granted = [p \in Providers |-> 0]
    /\ _semaphore = SemaphoreCapacity
    /\ pc = [t \in Tasks |-> "idle"]
    /\ kind = [t \in Tasks |-> "quote"]
    /\ arg = [t \in Tasks |-> ""]
    /\ owner = [t \in Tasks |-> 0]
    /\ pos = [t \in Tasks |-> 0]
    /\ result = [t \in Tasks |-> Pending]
    /\ log = [t \in Tasks |-> <<>>]
    /\ bpc = [b \in Batches |-> "idle"]
    /\ symbols = [b \in Batches |-> <<>>]
    /\ offset = [b \in Batches |-> 0]
    /\ start_time = [b \in Batches |-> 0]
    /\ quotes = [b \in Batches |-> <<>>]
    /\ fetched = [b \in Batches |-> <<>>]
    /\ bresult = [b \in Batches |-> "pending"]

\* state of the investments module, which the transaction routes do not write
investmentVars ==
    <<now, finnhub_key, brandfetch_client_id, api_status, portfolioVars, clientVars,
      limiterVars, _semaphore, taskVars, batchVars>>

\* ------------------------------------------------------ transactions: get_all

\* the dates of the transactions explored
Dates == {1, 2}

\* a row of the transactions table; transfer_account_id 0 stands for NULL
Transaction(id, account_id, type, transfer_account_id, amount, date) ==
    [id |-> id, account_id |-> account_id, type |-> type,
     transfer_account_id |-> transfer_account_id, amount |-> amount, date |-> date]

\* ORDER BY date DESC: every arrangement of the rows by falling date. Rows of
\* the same date have no defined order, and the database picks one per query
Orderings(rows) ==
    {o \in [1..Len(rows) -> 1..Len(rows)] :
        /\ \A i, j \in 1..Len(rows) : i # j => o[i] # o[j]
        /\ \A i, j \in 1..Len(rows) : i < j => rows[o[i]].date >= rows[o[j]].date}

\* .offset(skip).limit(limit).all() on one ordering of the rows
Page(rows, o, skip, limit) ==
    [k \in 1..Max(0, Min(limit, Len(rows) - skip)) |-> rows[o[skip + k]].id]

\* TransactionService.get_all(db, user_id, skip, limit) for the two pages of
\* a page size: skip = 0 or skip = limit
get_all(skip, limit) ==
    /\ \E o \in Orderings(transactions) :
          pages' = IF skip = 0
                   THEN [pages EXCEPT !.first = [skip |-> skip, limit |-> limit,
                                                 ids |-> Page(transactions, o, skip, limit)]]
                   ELSE [pages EXCEPT !.second = [skip |-> skip, limit |-> limit,
                                                  ids |-> Page(transactions, o, skip, limit)]]
    /\ UNCHANGED <<balance, transactions, next_id, rateVars, investmentVars>>

\* a user with up to MaxTransactions income transactions on account 1
InitPages ==
    /\ ServiceIdle
    /\ \E n \in 0..MaxTransactions :
          /\ transactions \in
                {[i \in 1..n |-> Transaction(i, 1, "income", 0, 1, d[i])] : d \in [1..n -> Dates]}
          /\ next_id = n
          /\ balance = [initial_balance EXCEPT ![1] = @ + n]
    /\ pages = [first |-> NoPage, second |-> NoPage]
    /\ RateIdle

NextPages ==
    \E limit \in 1..MaxPageSize : \E skip \in {0, limit} : get_all(skip, limit)

SpecPages == InitPages /\ [][NextPages]_vars

\* ---------------------------------------------------------- check_rate_limit
\* check_rate_limit is a plain function used as a dependency of the routes:
\* each request runs it on a worker thread, and the threads interleave between
\* its statements.

\* timedelta(minutes=1), the length of a block, and max_age_minutes = 10
BlockTime == RATE_LIMIT_WINDOW
CleanupAge == 10 * BlockTime

\* max(data["requests"])
Latest(times) == CHOOSE m \in {times[i] : i \in 1..Len(times)} :
                    \A i \in 1..Len(times) : times[i] <= m

\* cleanup_old_entries: the keys it deletes when run at time t
clients_to_remove(t) ==
    {c \in ClientIps :
        /\ rate_limit_storage[c] # 0
        /\ LET data == entries[rate_limit_storage[c]]
           IN IF data.requests # <<>>
              THEN Latest(data.requests) < t - CleanupAge
              ELSE data.blocked_until = -1 \/ data.blocked_until < t}

\* [req_time for req_time in client_data["requests"] if req_time > window_start]
InTrailingWindow(times, t) == SelectSeq(times, LAMBDA x : x > t - RATE_LIMIT_WINDOW)

\* request numbers are handed out in order
NextRequest(r) == checks[r].pc = "new" /\ \A q \in Requests : q < r => checks[q].pc # "new"

\* client_id = request.client.host; current_time = datetime.now()
RateEnter(r, c) ==
    /\ NextRequest(r)
    /\ checks' = [checks EXCEPT ![r] = [@ EXCEPT !.pc = "cleanup", !.client_id = c,
                                                 !.current_time = now]]
    /\ UNCHANGED <<rate_limit_storage, entries, ledgerVars, investmentVars>>

\* cleanup_old_entries(), with its own reading of the clock
cleanup_old_entries(r) ==
    /\ checks[r].pc = "cleanup"
    /\ rate_limit_storage' = [c \in ClientIps |->
                                 IF c \in clients_to_remove(now) THEN 0
                                 ELSE rate_limit_storage[c]]
    /\ checks' = [checks EXCEPT ![r].pc = "lookup"]
    /\ UNCHANGED <<entries, ledgerVars, investmentVars>>

\* the entry is created if the key is missing, client_data is bound to it and
\* a client whose block has not run out is answered 429
RateLookup(r) ==
    LET c == checks[r].client_id
        missing == rate_limit_storage[c] = 0
        e == IF missing THEN r ELSE rate_limit_storage[c]
        data == IF missing THEN NewEntry ELSE entries[e]
        blocked == data.blocked_until # -1 /\ checks[r].current_time < data.blocked_until
    IN /\ checks[r].pc = "lookup"
       /\ rate_limit_storage' = [rate_limit_storage EXCEPT ![c] = e]
       /\ entries' = [entries EXCEPT ![e] = data]
       /\ checks' = [checks EXCEPT ![r] =
             [@ EXCEPT !.client_data = e,
                       !.pc = IF blocked THEN "done" ELSE "prune",
                       !.outcome = IF blocked THEN "429" ELSE "-"]]
       /\ UNCHANGED <<ledgerVars, investmentVars>>

\* client_data["requests"] is replaced by its part inside the window
RatePrune(r) ==
    /\ checks[r].pc = "prune"
    /\ entries' = [entries EXCEPT ![checks[r].client_data].requests =
                       InTrailingWindow(@, checks[r].current_time)]
    /\ checks' = [checks EXCEPT ![r].pc = "limit"]
    /\ UNCHANGED <<rate_limit_storage, ledgerVars, investmentVars>>

\* `if len(client_data["requests"]) >= settings.RATE_LIMIT_REQUESTS`: the
\* client is blocked for a minute and the request answered 429
RateLimit(r) ==
    LET e == checks[r].client_data
    IN /\ checks[r].pc = "limit"
       /\ IF Len(entries[e].requests) >= RATE_LIMIT_REQUESTS
          THEN /\ entries' = [entries EXCEPT ![e].blocked_until =
                                  checks[r].current_time + BlockTime]
               /\ checks' = [checks EXCEPT ![r] = [@ EXCEPT !.pc = "done",
                                                            !.outcome = "429"]]
          ELSE /\ checks' = [checks EXCEPT ![r].pc = "append"]
               /\ UNCHANGED entries
       /\ UNCHANGED <<rate_limit_storage, ledgerVars, investmentVars>>

\* client_data["requests"].append(current_time): the request goes on to its route
RateAppend(r) ==
    /\ checks[r].pc = "append"
    /\ entries' = [entries EXCEPT ![checks[r].client_data].requests =
                       Append(@, checks[r].current_time)]
    /\ checks' = [checks EXCEPT ![r] = [@ EXCEPT !.pc = "done", !.outcome = "accepted"]]
    /\ UNCHANGED <<rate_limit_storage, ledgerVars, investmentVars>>

InitRate == ServiceIdle /\ LedgerIdle /\ RateIdle

NextRate ==
    \/ Tick
    \/ \E r \in Requests, c \in ClientIps : RateEnter(r, c)
    \/ \E r \in Requests : cleanup_old_entries(r)
    \/ \E r \in Requests : RateLookup(r)
    \/ \E r \in Requests : RatePrune(r)
    \/ \E r \in Requests : RateLimit(r)
    \/ \E r \in Requests : RateAppend(r)

SpecRate == InitRate /\ [][NextRate]_vars

\* ------------------------------------------- transactions: create/update/delete

\* amounts of the requests (signed; 0 is refused by the schema), and the
\* types: the code treats income and expense alike, expense stands for both
Amounts == {-1, 2}
LedgerTypes == {"expense", "transfer"}
\* the fields a TransactionUpdate can set that the balances depend on
UpdateFields == {"amount", "type"}

\* the row with id `id`, as TransactionService.get_by_id returns it for
\* user_id: joined with its account and filtered by the account's owner
get_by_id(rows, id, user_id) ==
    {i \in 1..Len(rows) : rows[i].id = id /\ Owner(rows[i].account_id) = user_id}

\* db.commit(): the CHECK constraints positive_balance (accounts) and
\* non_zero_amount (transactions) make the commit fail and roll back
Commits(bal, rows) ==
    /\ \A a \in Accounts : bal[a] >= 0
    /\ \A i \in 1..Len(rows) : rows[i].amount # 0

\* the session is committed, or rolled back as a whole
commit(bal, rows, ids) ==
    IF Commits(bal, rows)
    THEN balance' = bal /\ transactions' = rows /\ next_id' = ids
    ELSE UNCHANGED <<balance, transactions, next_id>>

\* rows without the one at index i
Without(rows, i) == SubSeq(rows, 1, i - 1) \o SubSeq(rows, i + 1, Len(rows))

\* `if transaction.type == 'transfer' and transaction.transfer_account_id:`
\* the account with that id, whoever owns it, is moved by -amount
TransferLeg(bal, user_id, type, transfer_account_id, amount) ==
    IF type = "transfer" /\ transfer_account_id # 0
    THEN [bal EXCEPT ![transfer_account_id] = @ - amount]
    ELSE bal

\* TransactionService.create for a request that passed TransactionCreate
\* (amount # 0, a transfer names a transfer account, which differs from the
\* booking account)
create(user_id, account_id, type, transfer_account_id, amount) ==
    /\ next_id < MaxLedgerRows
    /\ transfer_account_id # account_id
    /\ type = "transfer" => transfer_account_id # 0
    /\ IF Owner(account_id) # user_id
       THEN UNCHANGED <<balance, transactions, next_id>>
       ELSE commit(TransferLeg([balance EXCEPT ![account_id] = @ + amount],
                               user_id, type, transfer_account_id, amount),
                   Append(transactions,
                          Transaction(next_id + 1, account_id, type,
                                      transfer_account_id, amount, 1)),
                   next_id + 1)
    /\ UNCHANGED <<pages, rateVars, investmentVars>>

\* TransactionService.update; `fields` are the keys of
\* model_dump(exclude_unset=True): only the booking account is adjusted, by
\* the difference of the amounts
update(user_id, id, fields, amount, type) ==
    /\ LET found == get_by_id(transactions, id, user_id)
       IN IF found = {}
          THEN UNCHANGED <<balance, transactions, next_id>>
          ELSE LET i == CHOOSE k \in found : TRUE
                   old == transactions[i]
                   new == [old EXCEPT !.amount = IF "amount" \in fields THEN amount ELSE @,
                                      !.type = IF "type" \in fields THEN type ELSE @]
               IN commit([balance EXCEPT ![old.account_id] = @ + new.amount - old.amount],
                         [transactions EXCEPT ![i] = new], next_id)
    /\ UNCHANGED <<pages, rateVars, investmentVars>>

\* TransactionService.delete: the booking account is moved back by the
\* amount, and the transfer account of a transfer forward by it
delete(user_id, id) ==
    /\ LET found == get_by_id(transactions, id, user_id)
       IN IF found = {}
          THEN UNCHANGED <<balance, transactions, next_id>>
          ELSE LET i == CHOOSE k \in found : TRUE
                   old == transactions[i]
               IN commit(TransferLeg([balance EXCEPT ![old.account_id] = @ - old.amount],
                                     user_id, old.type, old.transfer_account_id,
                                     0 - old.amount),
                         Without(transactions, i), next_id)
    /\ UNCHANGED <<pages, rateVars, investmentVars>>

InitLedger == ServiceIdle /\ LedgerIdle /\ RateIdle

NextLedger ==
    \/ \E user_id \in Users, account_id \in Accounts, type \in LedgerTypes,
          transfer_account_id \in {0} \cup Accounts, amount \in Amounts :
          create(user_id, account_id, type, transfer_account_id, amount)
    \/ \E user_id \in Users, id \in 1..MaxLedgerRows, fields \in SUBSET UpdateFields,
          amount \in Amounts, type \in LedgerTypes :
          update(user_id, id, fields, amount, type)
    \/ \E user_id \in Users, id \in 1..MaxLedgerRows : delete(user_id, id)

SpecLedger == InitLedger /\ [][NextLedger]_vars

\* ------------------------------------------------- portfolio: pure functions
\* Amounts are integers; a percentage computed by a division is kept as the
\* exact fraction [num, den] in lowest terms (the code computes it in floats).

ShareValues == (0..MaxShares) \cup {10}
PriceValues == (0..MaxPrice) \cup {100, 110}
Statuses == {"active", "sold", "watchlist"}

RECURSIVE GCD(_, _)
GCD(a, b) == IF b = 0 THEN a ELSE GCD(b, a % b)
Abs(x) == IF x < 0 THEN -x ELSE x

\* n / d for d > 0
Frac(n, d) ==
    LET g == GCD(Abs(n), d)
    IN [num |-> n \div g, den |-> d \div g]

Zero == [num |-> 0, den |-> 1]

\* a StockQuote as enrich_investments reads it; Absent is quotes.get(symbol)
\* being None
Quote(p, c, cp) == [tag |-> "StockQuote", price |-> p, change |-> c, change_percent |-> cp]
Absent == [tag |-> "None", price |-> 0, change |-> 0, change_percent |-> 0]

\* a row of the investments table; sale_price 0 stands for NULL or 0.00,
\* sale_date 0 for NULL (a date is kept with every recorded sale price)
Row(i, sym, sh, avg, st, sale) ==
    [id |-> i, symbol |-> sym, shares |-> sh, average_price |-> avg,
     status |-> st, sale_price |-> sale, sale_date |-> IF sale = 0 THEN 0 ELSE 1]

\* (total_gain_loss / total_invested * 100) if total_invested > 0 else 0
GainLossPercent(gain, invested) ==
    IF invested > 0 THEN Frac(gain * 100, invested) ELSE Zero

\* the EnrichedInvestment built from a row, a price and the quote's day figures
Enriched(inv, st, sale, day, price, cp, dc) ==
    [id |-> inv.id, symbol |-> inv.symbol,
     shares |-> inv.shares, average_price |-> inv.average_price,
     status |-> st, sale_price |-> sale, sale_date |-> day,
     current_price |-> price,
     change_percent |-> cp,
     total_value |-> inv.shares * price,
     total_gain_loss |-> inv.shares * price - inv.shares * inv.average_price,
     total_gain_loss_percent |->
         GainLossPercent(inv.shares * price - inv.shares * inv.average_price,
                         inv.shares * inv.average_price),
     day_change |-> dc]

\* variant: a sold row is priced at its purchase price
convert_to_enriched_AtCost(inv) ==
    Enriched(inv, inv.status, inv.sale_price, inv.sale_date, inv.average_price, 0, 0)

\* InvestmentService.convert_to_enriched
convert_to_enriched(inv) ==
    Enriched(inv, inv.status, inv.sale_price, inv.sale_date,
             IF inv.status = "sold" /\ inv.sale_price # 0
             THEN inv.sale_price ELSE inv.average_price,
             0, 0)

\* variant: a row without a quote is valued at 0
EnrichOne_ZeroWhenAbsent(inv, quote) ==
    IF quote.tag = "StockQuote"
    THEN Enriched(inv, "active", 0, 0, quote.price, quote.change_percent,
                  inv.shares * quote.change)
    ELSE Enriched(inv, "active", 0, 0, 0, 0, 0)

\* variant: the day change is not scaled by the shares held
EnrichOne_DayChangePerShare(inv, quote) ==
    IF quote.tag = "StockQuote"
    THEN Enriched(inv, "active", 0, 0, quote.price, quote.change_percent, quote.change)
    ELSE Enriched(inv, "active", 0, 0, inv.average_price, 0, 0)

\* the body of the loop of enrich_investments; status, sale_price and
\* sale_date are not passed on, so the schema defaults ('active', None) apply
EnrichOne(inv, quote) ==
    IF quote.tag = "StockQuote"
    THEN Enriched(inv, "active", 0, 0, quote.price, quote.change_percent,
                  inv.shares * quote.change)
    ELSE Enriched(inv, "active", 0, 0, inv.average_price, 0, 0)

RECURSIVE SumSeq(_)
SumSeq(q) == IF q = <<>> THEN 0 ELSE Head(q) + SumSeq(Tail(q))

\* round(x, 2) of the fraction f, in hundredths: nearest, ties to even
\* (a tie of the amounts explored here is exact in binary floating point)
Round2(f) ==
    LET n == f.num * 100
        q == n \div f.den
        r == n % f.den
    IN IF 2 * r < f.den THEN q
       ELSE IF 2 * r > f.den THEN q + 1
       ELSE IF q % 2 = 0 THEN q ELSE q + 1

\* variant: the guard only excludes a divisor of exactly 0
PercentOf_NonZeroGuard(part, whole) ==
    IF whole > 0 THEN Round2(Frac(part * 100, whole))
    ELSE IF whole < 0 THEN Round2(Frac(-(part * 100), -whole))
    ELSE 0

\* (part / whole * 100) if whole > 0 else 0, rounded to 2 decimals, in hundredths
PercentOf(part, whole) == IF whole > 0 THEN Round2(Frac(part * 100, whole)) ELSE 0

\* the PortfolioSummary built from the four totals; the two percentages are in
\* hundredths of a percent, the amounts are whole so that round(x, 2) keeps them
Summary(tv, ti, dc, n) ==
    [total_value |-> tv, total_invested |-> ti, total_gain_loss |-> tv - ti,
     total_gain_loss_percent |-> PercentOf(tv - ti, ti),
     day_change |-> dc,
     day_change_percent |-> PercentOf(dc, tv - dc),
     positions_count |-> n]

\* variant: the invested total is taken from the current prices
calculate_portfolio_summary_InvestedAtMarket(enr) ==
    Summary(SumSeq([i \in 1..Len(enr) |-> enr[i].total_value]),
            SumSeq([i \in 1..Len(enr) |-> enr[i].shares * enr[i].current_price]),
            SumSeq([i \in 1..Len(enr) |-> enr[i].day_change]),
            Len(enr))

\* InvestmentService.calculate_portfolio_summary
calculate_portfolio_summary(enr) ==
    IF enr = <<>> THEN Summary(0, 0, 0, 0)
    ELSE Summary(SumSeq([i \in 1..Len(enr) |-> enr[i].total_value]),
                 SumSeq([i \in 1..Len(enr) |-> enr[i].shares * enr[i].average_price]),
                 SumSeq([i \in 1..Len(enr) |-> enr[i].day_change]),
                 Len(enr))

\* max(inv.total_value for inv in enriched_investments)
MaxValue(enr) ==
    CHOOSE v \in {enr[i].total_value : i \in 1..Len(enr)} :
        \A i \in 1..Len(enr) : enr[i].total_value <= v

\* the insight of the diversification rule
Diversification(sm) ==
    IF sm.positions_count < 5 THEN <<"low_diversification">>
                              ELSE <<"good_diversification">>

\* variant: the performance rule fires from 10 % on
Performance_AtLeast(sm) ==
    IF sm.total_gain_loss_percent >= 1000 THEN <<"excellent_performance">>
    ELSE IF sm.total_gain_loss_percent <= -1000 THEN <<"significant_losses">>
    ELSE <<>>

\* the insight of the performance rule, if any
Performance(sm) ==
    IF sm.total_gain_loss_percent > 1000 THEN <<"excellent_performance">>
    ELSE IF sm.total_gain_loss_percent < -1000 THEN <<"significant_losses">>
    ELSE <<>>

\* variant: the concentration rule fires above one half of the total
Concentration_AboveHalf(enr, sm) ==
    IF enr # <<>> /\ sm.total_value > 0 /\ MaxValue(enr) * 100 > 50 * sm.total_value
    THEN <<"high_concentration">> ELSE <<>>

\* the insight of the concentration rule, if any:
\* (max_position_value / summary.total_value) * 100 > 30
Concentration(enr, sm) ==
    IF enr # <<>> /\ sm.total_value > 0 /\ MaxValue(enr) * 100 > 30 * sm.total_value
    THEN <<"high_concentration">> ELSE <<>>

\* InvestmentService.generate_insights: the titles, in the order appended
generate_insights(enr, sm) ==
    Diversification(sm) \o Performance(sm) \o Concentration(enr, sm)

\* ----------------------------------------------------- portfolio: the routes

\* what the `status` query parameter of GET /api/investments may hold
\* ("" for a request without it)
StatusParams == {"", "active", "sold", "watchlist", "SOLD", "closed"}

\* status.lower()
Lower(st) == IF st = "SOLD" THEN "sold" ELSE st

\* the rows explored one at a time, with every combination of their fields
RichRows ==
    {Row(1, "AAPL", sh, avg, st, sale) :
        sh \in ShareValues, avg \in PriceValues, st \in Statuses, sale \in PriceValues}

\* the rows explored in numbers: (symbol, shares, average price, status, sale price)
RowKinds ==
    { <<"AAPL", 1, 100, "active", 0>>,
      <<"MSFT", 10, 100, "active", 0>>,
      <<"AAPL", 1, 110, "sold", 100>> }

Tables ==
    {<<>>} \cup {<<r>> : r \in RichRows}
    \cup UNION { { [i \in 1..n |-> Row(i, k[i][1], k[i][2], k[i][3], k[i][4], k[i][5])] :
                      k \in [1..n -> RowKinds] } : n \in 2..MaxPositions }

DayChanges == {-1, 1, 2}
QuoteValues == {Quote(p, c, c) : p \in PriceValues, c \in DayChanges}

\* what get_multiple_quotes may hand to enrich_investments: one entry per
\* symbol, or the exception it raises
Markets ==
    { [raised |-> "-", quotes |-> [AAPL |-> a, MSFT |-> m]] :
         a \in QuoteValues \cup {Absent},
         m \in {Absent, Quote(110, 2, 2)} }
    \cup { [raised |-> "ZeroDivisionError", quotes |-> [AAPL |-> Absent, MSFT |-> Absent]] }

InitPortfolio ==
    /\ investments \in Tables
    /\ market \in Markets
    /\ response = NoResponse
    /\ now = 0
    /\ api_status = NoStatus
    /\ _client = 0
    /\ is_closed = FALSE
    /\ created = 0
    /\ last_close = "-"
    /\ handed = 0
    /\ RestIdle
    /\ brandfetch_client_id = "bf_client"
    /\ finnhub_key = "fh_live_key"
    /\ finnhub_calls = <<>>
    /\ alpha_vantage_calls = <<>>
    /\ granted = [p \in Providers |-> 0]
    /\ _semaphore = SemaphoreCapacity
    /\ pc = [t \in Tasks |-> "idle"]
    /\ kind = [t \in Tasks |-> "quote"]
    /\ arg = [t \in Tasks |-> ""]
    /\ owner = [t \in Tasks |-> 0]
    /\ pos = [t \in Tasks |-> 0]
    /\ result = [t \in Tasks |-> Pending]
    /\ log = [t \in Tasks |-> <<>>]
    /\ bpc = [b \in Batches |-> "idle"]
    /\ symbols = [b \in Batches |-> <<>>]
    /\ offset = [b \in Batches |-> 0]
    /\ start_time = [b \in Batches |-> 0]
    /\ quotes = [b \in Batches |-> <<>>]
    /\ fetched = [b \in Batches |-> <<>>]
    /\ bresult = [b \in Batches |-> "pending"]

\* get_user_investments: the rows, filtered by status when a filter is given
get_user_investments(rows, status_filter) ==
    IF status_filter = "" THEN rows
    ELSE SelectSeq(rows, LAMBDA r : r.status = status_filter)

\* enrich_investments: [] for no rows; otherwise it awaits get_multiple_quotes
\* (whose exception passes through) and enriches every row
enrich_investments(rows, mkt) ==
    IF rows = <<>> THEN [raised |-> "-", positions |-> <<>>]
    ELSE IF mkt.raised # "-" THEN [raised |-> mkt.raised, positions |-> <<>>]
    ELSE [raised |-> "-",
          positions |-> [i \in 1..Len(rows) |-> EnrichOne(rows[i], mkt.quotes[rows[i].symbol])]]

Failed(exc) == [status |-> 500, error |-> exc]
Listing(st, enr) ==
    [status |-> 200, error |-> "-", route |-> "list", filter |-> st, positions |-> enr,
     summary |-> calculate_portfolio_summary(enr),
     insights |-> generate_insights(enr, calculate_portfolio_summary(enr))]

\* GET /api/investments?status=...
\*   - InvestmentStatus is bound by the import inside `if status:` only: without
\*     the parameter its use at the enrichment test raises UnboundLocalError
\*   - in the handler of an invalid value `status` is the parameter (a str),
\*     so status.HTTP_400_BAD_REQUEST raises AttributeError
list_investments(st) ==
    /\ response' =
          IF st = "" THEN Failed("UnboundLocalError")
          ELSE IF Lower(st) \notin Statuses THEN Failed("AttributeError")
          ELSE LET rows == get_user_investments(investments, Lower(st))
               IN IF Lower(st) = "active"
                  THEN LET e == enrich_investments(rows, market)
                       IN IF e.raised # "-" THEN Failed(e.raised)
                                            ELSE Listing(Lower(st), e.positions)
                  ELSE Listing(Lower(st), [i \in 1..Len(rows) |-> convert_to_enriched(rows[i])])
    /\ UNCHANGED <<investments, market, finnhub_key, brandfetch_client_id, api_status, restVars,
                   clientVars, aggregatorVars>>

\* GET /api/investments/{investment_id}
get_investment(id) ==
    /\ response' =
          IF id \notin 1..Len(investments)
          THEN [status |-> 404, error |-> "Investment not found"]
          ELSE LET e == enrich_investments(<<investments[id]>>, market)
               IN IF e.raised # "-" THEN Failed(e.raised)
                  ELSE [status |-> 200, error |-> "-", route |-> "one", filter |-> "-",
                        positions |-> e.positions]
    /\ UNCHANGED <<investments, market, finnhub_key, brandfetch_client_id, api_status, restVars,
                   clientVars, aggregatorVars>>

\* ------------------------------------------------------------ sell_investment

\* the saleDate values a sell request may carry
SaleDates == {1, 2}

\* the salePrice values a sell request may carry (gt=0)
SalePrices == PriceValues \ {0}

\* update_investment with InvestmentUpdate(status='sold', sale_price, sale_date,
\* notes): the row with the fields that were set written over, committed
update_investment(rows, id, price, day) ==
    [rows EXCEPT ![id] = [@ EXCEPT !.status = "sold", !.sale_price = price,
                                   !.sale_date = day]]

\* POST /api/investments/{investment_id}/sell
sell_investment(id, price, day) ==
    /\ IF id \notin 1..Len(investments)
       THEN /\ response' = [status |-> 404, error |-> "Investment not found"]
            /\ UNCHANGED investments
       ELSE /\ investments' = update_investment(investments, id, price, day)
            /\ response' = [status |-> 200, error |-> "-", route |-> "sell", filter |-> "-",
                            positions |-> <<>>,
                            row |-> update_investment(investments, id, price, day)[id]]
    /\ UNCHANGED <<market, finnhub_key, brandfetch_client_id, api_status, restVars,
                   clientVars, aggregatorVars>>

\* the tables a sell request is explored on
SellTables ==
    {<<>>} \cup UNION { { [i \in 1..n |-> Row(i, k[i][1], k[i][2], k[i][3], k[i][4], k[i][5])] :
                             k \in [1..n -> RowKinds] } : n \in 1..MaxSellRows }

InitSell ==
    /\ InitPortfolio
    /\ investments \in SellTables
    /\ market.quotes["MSFT"] = Absent

\* sells, and the reads the sell test issues around them
NextSell ==
    \/ \E id \in 1..(MaxSellRows + 1), price \in SalePrices, day \in SaleDates :
          sell_investment(id, price, day)
    \/ \E st \in StatusParams : list_investments(st)
    \/ \E id \in 1..(MaxSellRows + 1) : get_investment(id)

SpecSell == InitSell /\ [][NextSell]_vars

NextPortfolio ==
    \/ \E st \in StatusParams : list_investments(st)
    \/ \E id \in 1..(MaxPositions + 1) : get_investment(id)

SpecPortfolio == InitPortfolio /\ [][NextPortfolio]_vars

\* ================================================================== claims

\* recorded calls of a list that lie inside the trailing window at time t
InWindow(calls, t, window) ==
    Cardinality({i \in 1..Len(calls) : calls[i] > t - window})

Has(l, e) == \E i \in 1..Len(l) : l[i] = e
Count(l, e) == Cardinality({i \in 1..Len(l) : l[i] = e})
Index(l, e) == CHOOSE i \in 1..Len(l) : l[i] = e

\* C1: a timestamp is appended to a provider's call list only by the
\* coroutine whose permission check on that list has just returned true, no
\* other check or record on the list lying in between; and the recorded
\* calls inside the provider's window never exceed the ceiling.
C1_RecordOnlyAfterOwnGrant ==
    /\ [](/\ InWindow(finnhub_calls, now, FinnhubWindow) <= FINNHUB_MAX_PER_MINUTE
          /\ InWindow(alpha_vantage_calls, now, AlphaVantageWindow)
                <= ALPHA_VANTAGE_MAX_PER_DAY)
    /\ [][/\ Len(finnhub_calls') > Len(finnhub_calls) =>
                \E t \in Tasks : /\ granted["fh"] = t
                                 /\ pc[t] = "fh_permitted" /\ pc'[t] = "fh_wait"
          /\ Len(alpha_vantage_calls') > Len(alpha_vantage_calls) =>
                \E t \in Tasks : /\ granted["av"] = t
                                 /\ pc[t] = "av_permitted" /\ pc'[t] = "av_wait"]_vars

\* two requests are in flight at one provider's limiter stage at once: one has
\* recorded its call and awaits the response while another has been denied
C1_Witness ==
    \E t, u \in Tasks :
        /\ t # u
        /\ pc[t] = "fh_wait" /\ Has(log[t], <<"fh", "sent">>)
        /\ pc[u] = "av_wait" /\ Has(log[u], <<"fh", "denied">>)
        /\ InWindow(finnhub_calls, now, FinnhubWindow) = FINNHUB_MAX_PER_MINUTE

\* C2: whenever the recorded calls inside the trailing window equal the
\* ceiling, the provider's permission check returns false (the checking
\* coroutine does not enter the permitted branch).
C2_NoGrantAtCeiling ==
    [][\A t \in Tasks :
          /\ ( /\ pc[t] = "fh_gate" /\ pc'[t] # "fh_gate"
               /\ FinnhubConfigured
               /\ InWindow(finnhub_calls, now, FinnhubWindow) = FINNHUB_MAX_PER_MINUTE )
             => pc'[t] # "fh_permitted" /\ granted'["fh"] # t
          /\ ( /\ pc[t] = "av_gate" /\ pc'[t] # "av_gate"
               /\ InWindow(alpha_vantage_calls, now, AlphaVantageWindow)
                     = ALPHA_VANTAGE_MAX_PER_DAY )
             => pc'[t] # "av_permitted" /\ granted'["av"] # t]_vars

\* a request has just been denied by both limiters, each at its ceiling
C2_Witness ==
    \E t \in Tasks :
        /\ pc[t] = "done"
        /\ Has(log[t], <<"fh", "denied">>) /\ Has(log[t], <<"av", "denied">>)
        /\ InWindow(finnhub_calls, now, FinnhubWindow) = FINNHUB_MAX_PER_MINUTE
        /\ InWindow(alpha_vantage_calls, now, AlphaVantageWindow)
              = ALPHA_VANTAGE_MAX_PER_DAY

\* a get_stock_quote call made by a route has just returned
QuoteDone(t) == t \in DirectTasks /\ pc[t] = "done" /\ kind[t] = "quote"

\* what one provider's round trip can be logged as
Responses == {"data", "no_data", "throttled", "exception"}

\* the log holds an event of provider p
Consulted(l, p) == \E i \in 1..Len(l) : l[i][1] = p

\* C3 as stated: the providers are tried in the order Finnhub, Alpha Vantage,
\* each at most once, and a Finnhub attempt that fails by exception is always
\* followed by exactly one Alpha Vantage attempt.
C3_ExactlyOneSecondaryAfterFailure ==
    \A t \in DirectTasks :
        QuoteDone(t) /\ Has(log[t], <<"fh", "exception">>)
            => Count(log[t], <<"av", "sent">>) = 1

\* C3, amended: the providers are tried in the order Finnhub, Alpha Vantage,
\* one after the other and each at most once; after a Finnhub attempt that
\* failed by exception the Alpha Vantage limiter is consulted, and exactly one
\* Alpha Vantage attempt follows when it permits, none when it denies.
C3_ProviderOrder ==
    \A t \in DirectTasks :
        LET l == log[t] IN
        kind[t] = "quote" =>
            /\ Count(l, <<"fh", "sent">>) <= 1
            /\ Count(l, <<"av", "sent">>) <= 1
            /\ \A i, j \in 1..Len(l) : i < j /\ l[i][1] = "av" => l[j][1] = "av"
            /\ Has(l, <<"fh", "sent">>) /\ Has(l, <<"av", "sent">>) =>
                  \E i \in 1..Len(l) : /\ i > Index(l, <<"fh", "sent">>)
                                       /\ i < Index(l, <<"av", "sent">>)
                                       /\ l[i][1] = "fh" /\ l[i][2] \in Responses
            /\ pc[t] = "done" /\ Has(l, <<"fh", "exception">>) =>
                  \/ Has(l, <<"av", "granted">>) /\ Count(l, <<"av", "sent">>) = 1
                  \/ Has(l, <<"av", "denied">>) /\ Count(l, <<"av", "sent">>) = 0

\* a quote request whose Finnhub attempt raised has gone on to one Alpha
\* Vantage attempt and has returned
C3_Witness ==
    \E t \in DirectTasks :
        /\ QuoteDone(t)
        /\ Has(log[t], <<"fh", "exception">>)
        /\ Index(log[t], <<"fh", "exception">>) < Index(log[t], <<"av", "sent">>)
        /\ Count(log[t], <<"av", "sent">>) = 1

\* the symbols of an argument list
SymbolSet(syms) == {syms[i] : i \in 1..Len(syms)}

\* C4: a get_multiple_quotes call that ends returns a map whose key set is
\* exactly the set of input symbols, each mapped to a quote or to absent.
C4_KeySetIsInputSet ==
    \A b \in Batches :
        bpc[b] = "done" =>
            /\ bresult[b] = "returned"
            /\ DOMAIN quotes[b] = SymbolSet(symbols[b])
            /\ \A s \in DOMAIN quotes[b] : quotes[b][s].tag \in {"StockQuote", "None"}

\* fetches inside `async with self._semaphore`
InFlight ==
    {t \in ChildTasks : pc[t] \in {"fh_gate", "fh_permitted", "fh_wait",
                                   "av_gate", "av_permitted", "av_wait"}}

\* C5: the fetches of get_multiple_quotes calls that have started their
\* get_stock_quote and not finished it never outnumber the semaphore's
\* capacity, over all calls in progress; the permits left account for them.
C5_InFlightBounded ==
    /\ Cardinality(InFlight) <= SemaphoreCapacity
    /\ _semaphore = SemaphoreCapacity - Cardinality(InFlight)

\* two calls are in progress, the fetches in flight use every permit and a
\* fetch of the other call waits for one
C5_Witness ==
    /\ Cardinality(InFlight) = SemaphoreCapacity
    /\ \E t \in InFlight, u \in ChildTasks :
          /\ pc[t] \in {"fh_wait", "av_wait"}
          /\ pc[u] = "sem_wait"
          /\ owner[u] # owner[t]

\* C6: when a fetch of a get_multiple_quotes call has failed, the call still
\* returns, and every symbol maps to what its own (last) fetch produced,
\* absent for the failed one.
C6_FailureDoesNotAbort ==
    \A b \in Batches :
        LET syms == symbols[b] IN
        ( /\ bpc[b] = "done"
          /\ \E i \in 1..Len(fetched[b]) : fetched[b][i] = None )
        => /\ bresult[b] = "returned"
           /\ \A i \in 1..Len(syms) :
                 (\A j \in 1..Len(syms) : syms[j] = syms[i] => j <= i)
                     => quotes[b][syms[i]] = fetched[b][i]

C8_NoExceptionEscapes ==
    \A t \in DirectTasks :
        pc[t] = "done" =>
            /\ result[t].tag # "raised"
            /\ result[t].tag \in (IF kind[t] = "quote" THEN {"StockQuote", "None"}
                                                       ELSE {"results", "[]"})

\* a request has returned a value after both of its provider attempts raised
C8_Witness ==
    \E t \in DirectTasks :
        /\ pc[t] = "done"
        /\ Has(log[t], <<"fh", "exception">>)
        /\ Has(log[t], <<"av", "exception">>)
        /\ result[t] = Fallback(t)

\* C9 as stated: when a permitted Finnhub call completes without exception
\* or throttling signal and its result is empty, the aggregator stops and
\* returns that empty result; Alpha Vantage is not consulted.
C9_StopsOnEmptyResult ==
    \A t \in DirectTasks :
        pc[t] = "done" /\ Has(log[t], <<"fh", "no_data">>)
            => /\ ~Consulted(log[t], "av")
               /\ result[t] = (IF kind[t] = "quote" THEN None ELSE EmptyList)

\* C9, amended: for search and quote alike the aggregator stops at a
\* provider only when that provider's result is non-empty; an empty result
\* sends it on to the next provider exactly as a limiter denial, an exception
\* or a throttling signal does, and a search with keywords never returns an
\* empty list.
C9_StopsOnlyOnNonEmpty ==
    \A t \in DirectTasks :
        LET l == log[t] IN
        pc[t] = "done" =>
            /\ Has(l, <<"fh", "data">>) => ~Consulted(l, "av") /\ result[t].src = "finnhub"
            /\ ( \E o \in {"denied", "no_data", "throttled", "exception"} :
                     Has(l, <<"fh", o>>) ) => Consulted(l, "av")
            /\ Has(l, <<"av", "data">>) => result[t].src = "alpha_vantage"
            /\ ( \E o \in {"denied", "no_data", "throttled", "exception"} :
                     Has(l, <<"av", o>>) ) => result[t] = Fallback(t)
            /\ kind[t] = "search" /\ arg[t] # "" => result[t].tag = "results"

\* a request has returned Alpha Vantage's result after Finnhub answered with
\* an empty one
C9_Witness ==
    \E t \in DirectTasks :
        /\ pc[t] = "done"
        /\ Has(log[t], <<"fh", "no_data">>)
        /\ Has(log[t], <<"av", "data">>)
        /\ result[t].src = "alpha_vantage"

\* C10: a get_stock_quote call that the Finnhub limiter denied and Alpha
\* Vantage answered with a quote returns that quote, has sent no Finnhub
\* request and exactly one Alpha Vantage request; the denied check appends
\* nothing to finnhub_calls and the Alpha Vantage attempt appends one
\* timestamp to alpha_vantage_calls.
C10_SecondaryAfterDenial ==
    /\ [](\A t \in DirectTasks :
             ( /\ QuoteDone(t)
               /\ Has(log[t], <<"fh", "denied">>)
               /\ Has(log[t], <<"av", "data">>) )
             => /\ result[t] = StockQuote("alpha_vantage", Upper(arg[t]))
                /\ ~Has(log[t], <<"fh", "sent">>)
                /\ Count(log[t], <<"av", "sent">>) = 1)
    /\ [][\A t \in DirectTasks :
             /\ ( /\ Has(log'[t], <<"fh", "denied">>)
                  /\ pc[t] # "idle" /\ pc'[t] # pc[t] )
                => Len(finnhub_calls') <= Len(finnhub_calls)
             /\ ( /\ Has(log[t], <<"fh", "denied">>)
                  /\ pc[t] = "av_permitted" /\ pc'[t] = "av_wait" )
                => alpha_vantage_calls' = Append(alpha_vantage_calls, now)]_vars

\* a quote request denied by the Finnhub limiter has returned Alpha
\* Vantage's quote
C10_Witness ==
    \E t \in DirectTasks :
        /\ QuoteDone(t)
        /\ Has(log[t], <<"fh", "denied">>)
        /\ Count(log[t], <<"av", "sent">>) = 1
        /\ result[t] = StockQuote("alpha_vantage", Upper(arg[t]))
        /\ Len(finnhub_calls) = FINNHUB_MAX_PER_MINUTE

\* every recorded call of the list is at least one window old at time t
AllStale(calls, t, window) == \A i \in 1..Len(calls) : calls[i] + window <= t

\* C11: when a provider's call list is at its ceiling and the window length
\* has elapsed since every one of those calls, the next permission check
\* returns true and leaves the list without the stale timestamps.
C11_CapacityRestoredAfterWindow ==
    [][\A t \in Tasks :
          /\ ( /\ pc[t] = "fh_gate" /\ pc'[t] # "fh_gate"
               /\ FinnhubConfigured
               /\ Len(finnhub_calls) = FINNHUB_MAX_PER_MINUTE
               /\ AllStale(finnhub_calls, now, FinnhubWindow) )
             => /\ pc'[t] = "fh_permitted" /\ granted'["fh"] = t
                /\ finnhub_calls' = <<>>
          /\ ( /\ pc[t] = "av_gate" /\ pc'[t] # "av_gate"
               /\ Len(alpha_vantage_calls) = ALPHA_VANTAGE_MAX_PER_DAY
               /\ AllStale(alpha_vantage_calls, now, AlphaVantageWindow) )
             => /\ pc'[t] = "av_permitted" /\ granted'["av"] = t
                /\ alpha_vantage_calls' = <<>>]_vars

\* a request whose calls filled both lists still waits for Alpha Vantage;
\* both windows later another request has been permitted by both limiters,
\* and the Alpha Vantage check has just emptied the list
C11_Witness ==
    \E t, u \in DirectTasks :
        /\ t # u
        /\ pc[u] = "av_wait"
        /\ Has(log[u], <<"fh", "sent">>) /\ Has(log[u], <<"av", "sent">>)
        /\ pc[t] = "av_permitted"
        /\ Has(log[t], <<"fh", "granted">>)
        /\ alpha_vantage_calls = <<>>
        /\ finnhub_calls = <<now>>
        /\ FINNHUB_MAX_PER_MINUTE = 1 /\ ALPHA_VANTAGE_MAX_PER_DAY = 1

\* the last route call answered with positions built by enrich_investments
EnrichPath ==
    /\ response.status = 200
    /\ response.route = "one" \/ response.filter = "active"

\* the enriched positions of the last answer
Positions == IF response.status = 200 THEN response.positions ELSE <<>>
PositionIds == 1..Len(Positions)

\* the quote of an enriched position's symbol in the fetched map
QuoteOf(e) == market.quotes[e.symbol]

\* C12: a position whose quote is resolved gets total_value = shares x price,
\* total_gain_loss = total_value - shares x average_price,
\* total_gain_loss_percent = total_gain_loss / (shares x average_price) x 100
\* (0 when nothing is invested) and day_change = shares x change; 10 shares
\* bought at 100 and quoted 110 (+2) give 1100, 100, 10 and 20.
C12_EnrichedFigures ==
    EnrichPath =>
        \A i \in PositionIds :
            LET e == Positions[i]
                q == QuoteOf(e)
                invested == e.shares * e.average_price
            IN q.tag = "StockQuote" =>
                  /\ e.total_value = e.shares * q.price
                  /\ e.total_gain_loss = e.total_value - invested
                  /\ IF invested = 0
                     THEN e.total_gain_loss_percent = Zero
                     ELSE /\ e.total_gain_loss_percent.den > 0
                          /\ e.total_gain_loss_percent.num * invested
                                = e.total_gain_loss * 100 * e.total_gain_loss_percent.den
                  /\ e.day_change = e.shares * q.change
                  /\ ( e.shares = 10 /\ e.average_price = 100
                       /\ q.price = 110 /\ q.change = 2 )
                     => /\ e.total_value = 1100 /\ e.total_gain_loss = 100
                        /\ e.total_gain_loss_percent = [num |-> 10, den |-> 1]
                        /\ e.day_change = 20

\* the documented scenario has been enriched
C12_Witness ==
    /\ EnrichPath
    /\ \E i \in PositionIds :
          /\ Positions[i].shares = 10 /\ Positions[i].average_price = 100
          /\ QuoteOf(Positions[i]) = Quote(110, 2, 2)
          /\ Positions[i].total_value = 1100

\* C13: a position whose symbol was fetched as absent is still answered as an
\* enriched position, priced at its average price with gain/loss, gain/loss
\* percent, percent change and day change 0; the caller gets no error from
\* the enrichment.
C13_AbsentQuoteFallsBackToCost ==
    /\ response.error # "ZeroDivisionError"
    /\ EnrichPath =>
          \A i \in PositionIds :
              LET e == Positions[i]
              IN QuoteOf(e) = Absent =>
                    /\ e.current_price = e.average_price
                    /\ e.total_value = e.shares * e.average_price
                    /\ e.total_gain_loss = 0
                    /\ e.total_gain_loss_percent = Zero
                    /\ e.change_percent = 0
                    /\ e.day_change = 0

\* the stored row behind an enriched position
RowOf(e) == investments[e.id]

\* C14: on the sold listing, the unfiltered listing and the fetch by id, a
\* sold position is answered with its recorded sale price as current price
\* and with day change and percent change 0.
C14_SoldPricedAtSalePrice ==
    \A i \in PositionIds :
        LET e == Positions[i]
        IN ( RowOf(e).status = "sold" /\ RowOf(e).sale_price # 0 )
           => /\ e.current_price = RowOf(e).sale_price
              /\ e.day_change = 0
              /\ e.change_percent = 0

\* the figures of the last listing's positions, summed
SumValue == SumSeq([i \in PositionIds |-> Positions[i].total_value])
SumInvested == SumSeq([i \in PositionIds |-> Positions[i].shares * Positions[i].average_price])
SumGain == SumSeq([i \in PositionIds |-> Positions[i].total_gain_loss])
SumDayChange == SumSeq([i \in PositionIds |-> Positions[i].day_change])

IsListing == response.status = 200 /\ response.route = "list"

\* C15: for a non-empty list of enriched positions the summary's total value,
\* total invested and day change are the sums over the positions, the total
\* gain/loss is total value - total invested and the count is the length.
C15_SummaryIsSumOfPositions ==
    ( IsListing /\ Len(Positions) > 0 ) =>
        /\ response.summary.total_value = SumValue
        /\ response.summary.total_invested = SumInvested
        /\ response.summary.total_gain_loss = SumValue - SumInvested
        /\ response.summary.total_gain_loss = SumGain
        /\ response.summary.day_change = SumDayChange
        /\ response.summary.positions_count = Len(Positions)

\* a listing of several positions of different value has been summed
C15_Witness ==
    /\ IsListing
    /\ Len(Positions) >= 2
    /\ \E i, j \in PositionIds : Positions[i].total_value # Positions[j].total_value
    /\ response.summary.total_value = SumValue
    /\ response.summary.day_change # 0
    /\ response.summary.total_gain_loss # 0

\* C16: the summary is defined for every list: all figures 0 for the empty
\* list, total gain/loss percent 0 when nothing is invested, day change
\* percent 0 when yesterday's value (total value - day change) is not positive.
C16_SummaryIsTotal ==
    IsListing =>
        /\ Len(Positions) = 0 => response.summary = Summary(0, 0, 0, 0)
        /\ response.summary.total_invested = 0
              => response.summary.total_gain_loss_percent = 0
        /\ response.summary.total_value - response.summary.day_change <= 0
              => response.summary.day_change_percent = 0

\* a non-empty listing whose value of yesterday is 0 while the day change is not
C16_Witness ==
    /\ IsListing
    /\ Len(Positions) > 0
    /\ response.summary.total_value - response.summary.day_change = 0
    /\ response.summary.day_change # 0
    /\ response.summary.day_change_percent = 0

\* the summary's gain/loss percent, in hundredths of a percent
Pct == response.summary.total_gain_loss_percent

\* the insights of the four documented rules, in order
FourRules ==
    (IF response.summary.positions_count < 5
       THEN <<"low_diversification">> ELSE <<>>)
    \o (IF Pct > 1000 THEN <<"excellent_performance">> ELSE <<>>)
    \o (IF Pct < -1000 THEN <<"significant_losses">> ELSE <<>>)
    \o (IF /\ Len(Positions) > 0
           /\ response.summary.total_value > 0
           /\ \E i \in PositionIds :
                 Positions[i].total_value * 100 > 30 * response.summary.total_value
       THEN <<"high_concentration">> ELSE <<>>)

\* C17 as stated: the insights are exactly those of the four rules, in order.
C17_ExactlyTheFourRules ==
    IsListing => response.insights = FourRules

\* C17: the insights are those of the four rules in order, preceded, when
\* the portfolio has five positions or more, by a fifth insight of type
\* success on good diversification.
C17_FourRulesOrGoodDiversification ==
    IsListing =>
        response.insights =
            (IF response.summary.positions_count >= 5
               THEN <<"good_diversification">> ELSE <<>>) \o FourRules

\* a listing of five positions or more with losses and a dominant position
C17_Witness ==
    /\ IsListing
    /\ response.summary.positions_count >= 5
    /\ response.insights
          = <<"good_diversification", "significant_losses", "high_concentration">>

\* a get_stock_logo call that has looked the logo up and ended
LogoDone(t) == t \in DirectTasks /\ pc[t] = "done" /\ kind[t] = "logo" /\ log[t] # <<>>

\* C18: every lookup ends in a returned result: status 200 gives
\* available = true with the logo URL of the ticker; 404, any other status,
\* a timeout and any transport error give available = false with no URL.
C18_LookupFailureIsAResult ==
    \A t \in Tasks :
        LogoDone(t) =>
            /\ result[t].tag = "logo"
            /\ IF log[t] = <<"200">>
               THEN /\ result[t].available
                    /\ result[t].logo_url = LogoUrl(result[t].symbol)
               ELSE /\ ~result[t].available
                    /\ result[t].logo_url = NoUrl

\* the entries of the last status answer, with the call list each is about
StatusEntries == {"finnhub", "alpha_vantage"}

\* C19: a status answer reports, per provider, the ceiling, the number of
\* recorded calls inside the window, remaining = max(0, ceiling - calls) and
\* available = the limiter's verdict, so that available holds exactly when
\* remaining > 0; the query records no call.
C19_StatusIsConsistent ==
    /\ [](api_status # NoStatus =>
            /\ api_status.finnhub.limit = FINNHUB_MAX_PER_MINUTE
            /\ api_status.alpha_vantage.limit = ALPHA_VANTAGE_MAX_PER_DAY
            /\ \A p \in StatusEntries :
                  /\ api_status[p].remaining = Max(0, api_status[p].limit - api_status[p].calls)
                  /\ api_status[p].available <=> api_status[p].remaining > 0)
    /\ [][api_status' # api_status =>
            /\ api_status'.finnhub.calls
                  = InWindow(finnhub_calls, now, FinnhubWindow)
            /\ api_status'.alpha_vantage.calls
                  = InWindow(alpha_vantage_calls, now, AlphaVantageWindow)
            /\ api_status'.finnhub.available
                  <=> Len(finnhub_calls') < FINNHUB_MAX_PER_MINUTE
            /\ api_status'.alpha_vantage.available
                  <=> Len(alpha_vantage_calls') < ALPHA_VANTAGE_MAX_PER_DAY
            /\ Len(finnhub_calls') <= Len(finnhub_calls)
            /\ Len(alpha_vantage_calls') <= Len(alpha_vantage_calls)]_vars

\* t sends a provider request in this step, on the client _get_client returns
RequestSent(t) ==
    /\ pc[t] \in {"fh_permitted", "av_permitted"}
    /\ pc'[t] \in {"fh_wait", "av_wait"}

\* a close() call ends in this step having closed a client
CloseReturns ==
    /\ last_close' = "closed"
    /\ clientVars' # clientVars
    /\ \A t \in Tasks : ~RequestSent(t)

\* C20: an instance is created only by a request; the first request, and the
\* first after a close(), creates a fresh instance, and every later request
\* up to the next close() uses that instance; when close() returns the
\* service holds no client, and a close() without a client changes nothing.
C20_OneClientBetweenCloses ==
    [][ /\ \A t \in Tasks :
              RequestSent(t) =>
                  IF handed = 0
                  THEN _client' = created + 1 /\ created' = created + 1
                  ELSE _client' = handed /\ created' = created
        /\ created' # created => \E t \in Tasks : RequestSent(t)
        /\ CloseReturns => _client' = 0
        /\ (last_close' = "noop" /\ last_close # "noop")
              => _client = 0 /\ UNCHANGED <<_client, is_closed, created>> ]_vars

\* the last answer is that of a successful sell
SellOk == response.status = 200 /\ response.route = "sell"

\* C21: a successful sell deletes no record and leaves the sold record with
\* status sold, the submitted sale price and the submitted sale date; the
\* listing without a status parameter issued next returns positions, and the
\* sold record is not among them.
C21_SoldLeavesTheListing ==
    [][ /\ ( response' # response /\ response'.status = 200 /\ response'.route = "sell" )
           => /\ Len(investments') = Len(investments)
              /\ \E id \in 1..Len(investments), price \in SalePrices, day \in SaleDates :
                    /\ response'.row.id = id
                    /\ investments'[id].status = "sold"
                    /\ investments'[id].sale_price = price
                    /\ investments'[id].sale_date = day
                    /\ sell_investment(id, price, day)
        /\ ( SellOk /\ list_investments("") )
           => /\ response'.status = 200
              /\ \A i \in 1..Len(response'.positions) :
                    response'.positions[i].id # response.row.id ]_vars

\* the transactions of a returned page
PageIds(p) == {p.ids[k] : k \in 1..Len(p.ids)}

\* C22: the pages returned for (skip = 0, limit = n) and (skip = n, limit = n)
\* over the same transactions have no transaction in common, whatever dates
\* the transactions carry.
C22_PagesAreDisjoint ==
    ( /\ pages.first # NoPage
      /\ pages.second # NoPage
      /\ pages.first.limit = pages.second.limit
      /\ pages.second.skip = pages.second.limit )
    => PageIds(pages.first) \cap PageIds(pages.second) = {}

\* the indices of the chunk a call is gathering
Chunk(b) == (offset[b] + 1)..Min(offset[b] + batch_size, Len(symbols[b]))

InvalidStatus(st) == st # "" /\ Lower(st) \notin Statuses

\* C25: list_investments called with a status that is not a lifecycle status
\* answers HTTP 400, and reads neither the table nor the market.
C25_InvalidStatusIs400 ==
    [][\A st \in StatusParams :
          (InvalidStatus(st) /\ list_investments(st)) =>
              /\ response'.status = 400
              /\ UNCHANGED <<investments, market, aggregatorVars>>]_vars

\* close() closes the client it holds and returns in one step
ClosesHeldClient == last_close # "aclose" /\ last_close' = "closed"

\* C28: every client the service created is the one it holds or has been
\* closed: the service lets go of an open client only in the step of a close()
\* that closes it, so a client created while close() was suspended is kept.
C28_NoOpenClientDropped ==
    [][(_client # 0 /\ ~is_closed /\ _client' # _client) => ClosesHeldClient]_vars

\* C29: every position enrich_investments returns carries the lifecycle
\* status, the sale price and the sale date of the stored row it was built
\* from.
C29_EnrichKeepsStoredFields ==
    EnrichPath =>
        \A k \in PositionIds :
            /\ Positions[k].status = RowOf(Positions[k]).status
            /\ Positions[k].sale_price = RowOf(Positions[k]).sale_price
            /\ Positions[k].sale_date = RowOf(Positions[k]).sale_date

\* the last answer lists 1 to 3 positions of non-negative value whose total
\* is positive
SmallPortfolio ==
    /\ IsListing
    /\ Len(Positions) \in 1..3
    /\ \A k \in PositionIds : Positions[k].total_value >= 0
    /\ response.summary.total_value > 0

RECURSIVE Booked(_, _)
Booked(rows, a) ==
    IF rows = <<>> THEN 0
    ELSE (IF Head(rows).account_id = a THEN Head(rows).amount ELSE 0)
         + Booked(Tail(rows), a)

RECURSIVE Transferred(_, _)
Transferred(rows, a) ==
    IF rows = <<>> THEN 0
    ELSE (IF Head(rows).type = "transfer" /\ Head(rows).transfer_account_id = a
          THEN Head(rows).amount ELSE 0)
         + Transferred(Tail(rows), a)

\* C26: after any creates, updates and deletes every account's balance is its
\* initial balance plus the amounts of the existing transactions booked on it
\* minus the amounts of the existing transfers that name it as transfer
\* account; with no transaction left every balance is the initial one.
C26_BalanceIsLedgerSum ==
    \A a \in Accounts :
        balance[a] = initial_balance[a] + Booked(transactions, a)
                                        - Transferred(transactions, a)

\* the step is a create, update or delete made for user_id
ActsFor(user_id) ==
    \/ \E account_id \in Accounts, type \in LedgerTypes,
          transfer_account_id \in {0} \cup Accounts, amount \in Amounts :
          create(user_id, account_id, type, transfer_account_id, amount)
    \/ \E id \in 1..MaxLedgerRows, fields \in SUBSET UpdateFields,
          amount \in Amounts, type \in LedgerTypes :
          update(user_id, id, fields, amount, type)
    \/ \E id \in 1..MaxLedgerRows : delete(user_id, id)

\* C27: a create, update or delete made for one user leaves the balance of
\* every account of another user as it was.
C27_OtherUsersBalancesKept ==
    [][\A user_id \in Users :
          ActsFor(user_id) =>
              \A a \in Accounts : Owner(a) # user_id => balance'[a] = balance[a]]_vars

\* the check_rate_limit calls of client c that were accepted at a time inside
\* the window that ends now
AcceptedInWindow(c) ==
    {r \in Requests : /\ checks[r].outcome = "accepted"
                      /\ checks[r].client_id = c
                      /\ checks[r].current_time > now - RATE_LIMIT_WINDOW}

\* the requests recorded for client c inside the window that ends now
RecordedInWindow(c) ==
    IF rate_limit_storage[c] = 0 THEN <<>>
    ELSE InTrailingWindow(entries[rate_limit_storage[c]].requests, now)

\* C24: whatever the interleaving of the requests, a client's recorded
\* requests inside the trailing window never exceed RATE_LIMIT_REQUESTS, no
\* more requests than that are accepted inside it, and every accepted request
\* inside it is recorded.
C24_WindowNeverExceedsLimit ==
    \A c \in ClientIps :
        /\ Len(RecordedInWindow(c)) <= RATE_LIMIT_REQUESTS
        /\ Cardinality(AcceptedInWindow(c)) <= RATE_LIMIT_REQUESTS
        /\ Cardinality(AcceptedInWindow(c)) <= Len(RecordedInWindow(c))

====
